---- MODULE Spec2Model ----
(***************************************************************************)
(* srcds-log-parser: the framing decoder LogMessage::from_bytes            *)
(* (src/src/parser.rs) and the message grammar MessageType::from_message   *)
(* (src/src/parser/message_type.rs, src/src/parser/message_type/parsers.rs)*)
(*                                                                         *)
(* Bytes are integers 0..255.  Text (a Rust String / &str) is a sequence   *)
(* of Unicode scalar values, so "L " is <<76, 32>>.  A parser result is    *)
(*   [st |-> "ok", rest |-> text, val |-> value]   Ok((rest, value))       *)
(*   [st |-> "err"]                                nom's Err::Error        *)
(*   [st |-> "panic"]                              the thread panics       *)
(* A parser that composes other parsers is written with Bind: Bind(r, F)   *)
(* is Rust's r? followed by F, which gets the Ok; anything else is         *)
(* returned at once.  A parser made of elementary steps is the list of the *)
(* steps in the order in which they run: After(r, P) is the step P on what *)
(* the step r left, or the failure of r, and Steps(steps, F) is F of the   *)
(* results when every step is Ok and the failure otherwise.                *)
(***************************************************************************)
EXTENDS Integers, Sequences, FiniteSets, TLC

VARIABLES op, input, gen, result

vars == <<op, input, gen, result>>

----------------------------------------------------------------------------
(* Sequences and results *)

Take(s, n) == SubSeq(s, 1, IF n < Len(s) THEN n ELSE Len(s))

Drop(s, n) == SubSeq(s, n + 1, Len(s))

\* s[m..n], cut at the end of s
Slice(s, m, n) == SubSeq(s, m, IF n < Len(s) THEN n ELSE Len(s))

StartsWith(s, p) == Len(s) >= Len(p) /\ SubSeq(s, 1, Len(p)) = p

\* Index of the first element of s equal to c, 0 when there is none.
Position(s, c) ==
    IF \E k \in 1..Len(s) : s[k] = c
    THEN CHOOSE k \in 1..Len(s) : s[k] = c /\ \A j \in 1..(k - 1) : s[j] # c
    ELSE 0

\* Number of leading elements of s that satisfy P.
PrefixLen(P(_), s) ==
    IF \A k \in 1..Len(s) : P(s[k])
    THEN Len(s)
    ELSE (CHOOSE k \in 1..Len(s) : ~P(s[k]) /\ \A j \in 1..(k - 1) : P(s[j])) - 1

Min(S) == CHOOSE x \in S : \A y \in S : x <= y

Ok(rest, val) == [st |-> "ok", rest |-> rest, val |-> val]

\* Ok(value) of a Result that carries no remaining input
OkVal(val) == [st |-> "ok", val |-> val]

Error == [st |-> "err"]

Panic == [st |-> "panic"]

\* let r = ...?; F(r)
Bind(r, F(_)) == IF r.st = "ok" THEN F(r) ELSE r

\* The step P after the step r: P runs on the input left by r; when r failed,
\* the failure is the outcome of this step too.
After(r, P(_)) == IF r.st = "ok" THEN P(r.rest) ELSE r

\* The outcome of the steps, which run in the order of the list: F of their
\* results when all are Ok, the failure otherwise (the last step carries it,
\* see After).
Steps(steps, F(_)) ==
    IF \A k \in 1..Len(steps) : steps[k].st = "ok" THEN F(steps) ELSE steps[Len(steps)]

----------------------------------------------------------------------------
(* Character classes *)

\* u8::is_ascii_digit, nom's digit1
IsAsciiDigit(c) == c >= 48 /\ c <= 57

\* char::is_whitespace (Unicode White_Space); str::trim_start uses the same set
IsWhitespace(c) ==
    \/ c >= 9 /\ c <= 13
    \/ c \in {32, 133, 160, 5760, 8232, 8233, 8239, 8287, 12288}
    \/ c >= 8192 /\ c <= 8202

\* char::to_lowercase restricted to the characters that can equal a letter of
\* an ASCII tag after lowercasing (the Kelvin sign, the only other one, maps to
\* 'k', which no tag of the grammar contains)
ToLowercase(c) == IF c >= 65 /\ c <= 90 THEN c + 32 ELSE c

\* Length of the UTF-8 encoding of a scalar value (&str offsets count bytes)
LenUtf8(c) == IF c < 128 THEN 1 ELSE IF c < 2048 THEN 2 ELSE IF c < 65536 THEN 3 ELSE 4

----------------------------------------------------------------------------
(* String::from_utf8_lossy: every maximal ill-formed byte run that         *)
(* Utf8Chunks reports becomes one U+FFFD.                                  *)

REPLACEMENT_CHARACTER == 65533

Utf8CharWidth(b) ==
    IF b < 128 THEN 1
    ELSE IF b < 194 THEN 0
    ELSE IF b < 224 THEN 2
    ELSE IF b < 240 THEN 3
    ELSE IF b < 245 THEN 4
    ELSE 0

SafeGet(d, k) == IF k <= Len(d) THEN d[k] ELSE 0

IsContByte(b) == b >= 128 /\ b <= 191

\* The second byte of a 3- or 4-byte sequence is range-checked against the first.
SecondByteOk(b1, b2) ==
    \/ b1 = 224 /\ b2 >= 160 /\ b2 <= 191
    \/ b1 >= 225 /\ b1 <= 236 /\ IsContByte(b2)
    \/ b1 = 237 /\ b2 >= 128 /\ b2 <= 159
    \/ b1 >= 238 /\ b1 <= 239 /\ IsContByte(b2)
    \/ b1 = 240 /\ b2 >= 144 /\ b2 <= 191
    \/ b1 >= 241 /\ b1 <= 243 /\ IsContByte(b2)
    \/ b1 = 244 /\ b2 >= 128 /\ b2 <= 143

\* n bytes are ill-formed: one U+FFFD for them
Utf8Bad(n) == [n |-> n, c |-> REPLACEMENT_CHARACTER]

\* The first character of the bytes b1 b2 b3 b4 (0 past the end), w the width
\* that b1 announces: [n |-> bytes consumed, c |-> the scalar value or U+FFFD]
Utf8Char(w, b1, b2, b3, b4) ==
    CASE w = 1 -> [n |-> 1, c |-> b1]
      [] w = 2 -> IF IsContByte(b2)
                  THEN [n |-> 2, c |-> (b1 - 192) * 64 + (b2 - 128)]
                  ELSE Utf8Bad(1)
      [] w = 3 -> IF ~SecondByteOk(b1, b2) THEN Utf8Bad(1)
                  ELSE IF ~IsContByte(b3) THEN Utf8Bad(2)
                  ELSE [n |-> 3, c |-> (b1 - 224) * 4096 + (b2 - 128) * 64 + (b3 - 128)]
      [] w = 4 -> IF ~SecondByteOk(b1, b2) THEN Utf8Bad(1)
                  ELSE IF ~IsContByte(b3) THEN Utf8Bad(2)
                  ELSE IF ~IsContByte(b4) THEN Utf8Bad(3)
                  ELSE [n |-> 4,
                        c |-> (b1 - 240) * 262144 + (b2 - 128) * 4096
                              + (b3 - 128) * 64 + (b4 - 128)]
      [] OTHER -> Utf8Bad(1)

Utf8Step(d) ==
    Utf8Char(Utf8CharWidth(d[1]), d[1], SafeGet(d, 2), SafeGet(d, 3), SafeGet(d, 4))

IsAscii(b) == b < 128

\* A run of ASCII bytes is decoded as it stands; any other byte starts a
\* character or an ill-formed run.
RECURSIVE Utf8Lossy(_)
Utf8Lossy(d) ==
    IF d = <<>> THEN <<>>
    ELSE IF IsAscii(d[1])
    THEN Take(d, PrefixLen(IsAscii, d)) \o Utf8Lossy(Drop(d, PrefixLen(IsAscii, d)))
    ELSE <<Utf8Step(d).c>> \o Utf8Lossy(Drop(d, Utf8Step(d).n))

----------------------------------------------------------------------------
(* chrono: NaiveDateTime::parse_and_remainder(s, "%m/%d/%Y - %H:%M:%S: ")  *)

\* StrftimeItems of the format string: a numeric item is <<"num", field, width>>
\* (only %Y is signed), a run of white space in the format is one Space item.
FormatItems ==
    << <<"num", "month", 2>>,  <<"lit", 47>>,
       <<"num", "day", 2>>,    <<"lit", 47>>,
       <<"num", "year", 4>>,   <<"space">>, <<"lit", 45>>, <<"space">>,
       <<"num", "hour", 2>>,   <<"lit", 58>>,
       <<"num", "minute", 2>>, <<"lit", 58>>,
       <<"num", "second", 2>>, <<"lit", 58>>, <<"space">> >>

\* Item::Space and the start of every Item::Numeric: s.trim_start()
TrimStart(s) == Drop(s, PrefixLen(IsWhitespace, s))

IsZero(c) == c = 48

\* Leading zeros removed: the digit run as a canonical numeral ("" for zero).
StripZeros(ds) == Drop(ds, PrefixLen(IsZero, ds))

\* The value of the k-th digit of ds counted from the right, 0 beyond its start
DigitAt(ds, k) == IF k <= Len(ds) THEN ds[Len(ds) + 1 - k] - 48 ELSE 0

\* The value of a canonical numeral of at most nine digits
DigitsValue(ds) ==
    DigitAt(ds, 1) + 10 * DigitAt(ds, 2) + 100 * DigitAt(ds, 3) + 1000 * DigitAt(ds, 4)
    + 10000 * DigitAt(ds, 5) + 100000 * DigitAt(ds, 6) + 1000000 * DigitAt(ds, 7)
    + 10000000 * DigitAt(ds, 8) + 100000000 * DigitAt(ds, 9)

\* The first n characters of s, all digits, as a number.  A run worth 10^9 or
\* more is an error: every field of the format rejects such a value as out of
\* range (and an i64 overflow is an error already).
ScanDigits(s, n) ==
    IF n = 0 \/ Len(StripZeros(SubSeq(s, 1, n))) > 9 THEN Error
    ELSE Ok(Drop(s, n), DigitsValue(StripZeros(SubSeq(s, 1, n))))

\* scan::number(s, 1, max): 1..max leading ASCII digits; max = 0 stands for
\* usize::MAX.
ScanNumber(s, max) ==
    LET run == PrefixLen(IsAsciiDigit, s) IN
    ScanDigits(s, IF max > 0 /\ run > max THEN max ELSE run)

\* The number r with the opposite sign
Negated(r) == IF r.st = "ok" THEN Ok(r.rest, 0 - r.val) ELSE r

\* Item::Numeric after its trim_start: an explicit sign lifts the width limit
\* of a signed field.
NumericSigned(s, field, width) ==
    IF field = "year" /\ s # <<>> /\ s[1] = 45 THEN Negated(ScanNumber(Tail(s), 0))
    ELSE IF field = "year" /\ s # <<>> /\ s[1] = 43 THEN ScanNumber(Tail(s), 0)
    ELSE ScanNumber(s, width)

\* Item::Numeric
NumericItem(s, field, width) == NumericSigned(TrimStart(s), field, width)

IsLeapYear(y) == y % 4 = 0 /\ (y % 100 # 0 \/ y % 400 = 0)

DaysInMonth(y, m) ==
    IF m = 2 THEN (IF IsLeapYear(y) THEN 29 ELSE 28)
    ELSE IF m \in {4, 6, 9, 11} THEN 30 ELSE 31

\* Parsed::to_naive_datetime_with_offset: NaiveDate::from_ymd_opt and the time
\* of day; second 60 is a leap second, kept as second 59 plus 10^9 nanoseconds.
ValidDateTime(p) ==
    /\ p.year >= -262143 /\ p.year <= 262142
    /\ p.month >= 1 /\ p.month <= 12
    /\ p.day >= 1 /\ p.day <= DaysInMonth(p.year, p.month)
    /\ p.hour <= 23 /\ p.minute <= 59 /\ p.second <= 60

ToNaiveDateTime(p) ==
    [year |-> p.year, month |-> p.month, day |-> p.day,
     hour |-> p.hour, minute |-> p.minute,
     second |-> IF p.second = 60 THEN 59 ELSE p.second,
     nanosecond |-> IF p.second = 60 THEN 1000000000 ELSE 0]

\* The fields n of a numeric item added to the fields of r
WithField(r, field, n) ==
    IF n.st = "ok" THEN Ok(n.rest, [r.val EXCEPT ![field] = n.val]) ELSE n

\* One item of the format applied to the text r.rest, r.val the fields so far;
\* nothing is parsed after an item that failed.
ParseItem(item, r) ==
    IF r.st # "ok" THEN r
    ELSE CASE item[1] = "lit" ->
                  IF r.rest # <<>> /\ r.rest[1] = item[2]
                  THEN Ok(Tail(r.rest), r.val) ELSE Error
           [] item[1] = "space" -> Ok(TrimStart(r.rest), r.val)
           [] OTHER -> WithField(r, item[2], NumericItem(r.rest, item[2], item[3]))

\* format::parse_internal: the fifteen items of the format, left to right
ParseItems(s) ==
    LET r0  == Ok(s, [year |-> 0, month |-> 0, day |-> 0,
                      hour |-> 0, minute |-> 0, second |-> 0])
        r1  == ParseItem(FormatItems[1], r0)
        r2  == ParseItem(FormatItems[2], r1)
        r3  == ParseItem(FormatItems[3], r2)
        r4  == ParseItem(FormatItems[4], r3)
        r5  == ParseItem(FormatItems[5], r4)
        r6  == ParseItem(FormatItems[6], r5)
        r7  == ParseItem(FormatItems[7], r6)
        r8  == ParseItem(FormatItems[8], r7)
        r9  == ParseItem(FormatItems[9], r8)
        r10 == ParseItem(FormatItems[10], r9)
        r11 == ParseItem(FormatItems[11], r10)
        r12 == ParseItem(FormatItems[12], r11)
        r13 == ParseItem(FormatItems[13], r12)
        r14 == ParseItem(FormatItems[14], r13)
        r15 == ParseItem(FormatItems[15], r14)
    IN  Steps(<<r1, r2, r3, r4, r5, r6, r7, r8, r9, r10, r11, r12, r13, r14, r15>>,
              LAMBDA r : r[15])

\* The date and time of the parsed fields r, with the text that follows them
DateTimeOf(r) ==
    IF r.st = "ok" /\ ValidDateTime(r.val) THEN Ok(r.rest, ToNaiveDateTime(r.val))
    ELSE Error

parse_and_remainder(s) == DateTimeOf(ParseItems(s))

----------------------------------------------------------------------------
(* LogMessage::from_bytes *)

PACKET_HEADER == <<255, 255, 255, 255>>

MAGIC_NOPASSWORD_BYTE == 82

MAGIC_PASSWORD_BYTE == 83

MAGIC_STRING_END == 76

None == [some |-> FALSE]

Some(v) == [some |-> TRUE, v |-> v]

Err(e) == [st |-> "err", err |-> e]

\* A mutant of StripPacketHeader: the four 0xFF bytes are never cut off.
StripPacketHeader_never(header) == header

\* parser.rs 57-65: udp packets start with four 0xFF bytes
StripPacketHeader(header) ==
    IF Len(header) > 4 /\ SubSeq(header, 1, 4) = PACKET_HEADER
    THEN Drop(header, 4)
    ELSE header

\* A mutant of SecretOf: the indicator byte is kept in the secret.
SecretOf_keepsIndicator(header) ==
    LET h == StripPacketHeader(header) IN
    IF header = <<>> THEN OkVal(None)
    ELSE IF h[1] = MAGIC_PASSWORD_BYTE THEN OkVal(Some(Utf8Lossy(h)))
    ELSE IF h[1] = MAGIC_NOPASSWORD_BYTE THEN OkVal(None)
    ELSE Err([kind |-> "BadPasswordByte", byte |-> h[1]])

\* parser.rs 56-82: the secret of a header
SecretOf(header) ==
    LET h == StripPacketHeader(header) IN
    IF header = <<>> THEN OkVal(None)
    ELSE IF h[1] = MAGIC_PASSWORD_BYTE THEN OkVal(Some(Utf8Lossy(Tail(h))))
    ELSE IF h[1] = MAGIC_NOPASSWORD_BYTE THEN OkVal(None)
    ELSE Err([kind |-> "BadPasswordByte", byte |-> h[1]])

\* parser.rs 87-98: the parsed timestamp ts and the text after it
Timestamped(ts, secret) ==
    IF ts.st # "ok" THEN Err([kind |-> "BadTimestamp"])
    ELSE OkVal([timestamp |-> ts.val, message |-> ts.rest, secret |-> secret])

\* parser.rs 49-99.  idx is the position of the marker counted from 1, so
\* &data[..idx] is data[1..idx-1] and &data[(idx + 2)..] drops idx + 1 bytes;
\* the slice panics when it starts past the end.
from_bytes(data) ==
    LET idx == Position(data, MAGIC_STRING_END)
        secret == SecretOf(SubSeq(data, 1, idx - 1))
    IN  IF idx = 0 THEN Err([kind |-> "NoMagicStringEnd"])
        ELSE IF idx + 1 > Len(data) THEN Panic
        ELSE IF secret.st # "ok" THEN secret
        ELSE Timestamped(parse_and_remainder(Utf8Lossy(Drop(data, idx + 1))), secret.val)

----------------------------------------------------------------------------
(* nom combinators over &str (nom 7, the `complete` variants) *)

\* character::complete::char
char(c, i) == IF i # <<>> /\ i[1] = c THEN Ok(Tail(i), c) ELSE Error

\* bytes::complete::tag
tag(t, i) == IF StartsWith(i, t) THEN Ok(Drop(i, Len(t)), t) ELSE Error

\* bytes::complete::tag_no_case: characters are compared after to_lowercase
tag_no_case(t, i) ==
    IF Len(i) >= Len(t) /\ \A k \in 1..Len(t) : ToLowercase(i[k]) = ToLowercase(t[k])
    THEN Ok(Drop(i, Len(t)), Take(i, Len(t)))
    ELSE Error

\* The text before position k of i, which must be at least min long
TakeBefore(i, k, min) == IF k <= min THEN Error ELSE Ok(Drop(i, k - 1), Take(i, k - 1))

\* bytes::complete::take_until with a one-character pattern: the text before
\* the first c, which stays in the remaining input
take_until(c, i) == TakeBefore(i, Position(i, c), 0)

\* bytes::complete::take_until1: as take_until, and the text must not be empty
take_until1(c, i) == TakeBefore(i, Position(i, c), 1)

\* The first n characters of i, which must be at least min
TakeFirst(i, n, min) == IF n < min THEN Error ELSE Ok(Drop(i, n), Take(i, n))

\* bytes::complete::take_while(char::is_whitespace)
take_while_whitespace(i) == TakeFirst(i, PrefixLen(IsWhitespace, i), 0)

\* bytes::complete::take_while1(char::is_whitespace)
take_while1_whitespace(i) == TakeFirst(i, PrefixLen(IsWhitespace, i), 1)

\* character::complete::digit1
digit1(i) == TakeFirst(i, PrefixLen(IsAsciiDigit, i), 1)

\* delimited(char('"'), take_until1("\""), char('"'))
quoted1(i) ==
    LET a == char(34, i)
        b == After(a, LAMBDA x : take_until1(34, x))
        c == After(b, LAMBDA x : char(34, x))
    IN  Steps(<<a, b, c>>, LAMBDA r : Ok(r[3].rest, r[2].val))

\* Parser::or: the second parser runs only when the first returns Err::Error
or(r1, r2) == IF r1.st = "err" THEN r2 ELSE r1

\* A chain of Parser::or over the parsers whose outcomes are rs, in order:
\* the first outcome that is not Err::Error, and the error of the last parser
\* when there is none
FirstOf(rs) ==
    IF \A k \in 1..Len(rs) : rs[k].st = "err" THEN rs[Len(rs)]
    ELSE rs[Min({k \in 1..Len(rs) : rs[k].st # "err"})]

----------------------------------------------------------------------------
(* str::parse::<u8 / u16 / u32>: an optional '+', then one or more of the   *)
(* digits 0-9 whose value fits the type; anything else is an error.        *)

\* The text without the one leading '+' that an unsigned numeral may carry
\* (a lone "+" stays as it is, and is no numeral)
Unsigned(ds) == IF Len(ds) >= 2 /\ ds[1] = 43 THEN Drop(ds, 1) ELSE ds

\* One or more of the digits 0-9
IsNumeral(ds) == ds # <<>> /\ \A k \in 1..Len(ds) : IsAsciiDigit(ds[k])

\* The value of the numeral c when, without its leading zeros, it has at most
\* n digits and is at most max: [ok |-> BOOLEAN, v |-> the value]
ParseCanonical(c, n, max) ==
    IF IsNumeral(c) /\ Len(StripZeros(c)) <= n /\ DigitsValue(StripZeros(c)) <= max
    THEN [ok |-> TRUE, v |-> DigitsValue(StripZeros(c))] ELSE [ok |-> FALSE]

\* u8 (an octet)
ParseU8(ds) == ParseCanonical(Unsigned(ds), 3, 255)

\* u16 (a port)
ParseU16(ds) == ParseCanonical(Unsigned(ds), 5, 65535)

\* A u32 value n is the pair of its decimal halves <<n \div 10^5, n % 10^5>>, so
\* that u32::MAX = 4294967295 is <<42949, 67295>>.
U32_MAX == <<42949, 67295>>

\* The halves of a canonical numeral of at most ten digits
U32Halves(c) ==
    IF Len(c) > 5
    THEN <<DigitsValue(SubSeq(c, 1, Len(c) - 5)), DigitsValue(SubSeq(c, Len(c) - 4, Len(c)))>>
    ELSE <<0, DigitsValue(c)>>

U32Fits(h) == h[1] < U32_MAX[1] \/ (h[1] = U32_MAX[1] /\ h[2] <= U32_MAX[2])

\* The value of the numeral c when, without its leading zeros, it has at most
\* ten digits and is at most u32::MAX
ParseCanonicalU32(c) ==
    IF IsNumeral(c) /\ Len(StripZeros(c)) <= 10 /\ U32Fits(U32Halves(StripZeros(c)))
    THEN [ok |-> TRUE, v |-> U32Halves(StripZeros(c))] ELSE [ok |-> FALSE]

\* u32 (a session id)
ParseU32(ds) == ParseCanonicalU32(Unsigned(ds))

----------------------------------------------------------------------------
(* user: the regular expression of parsers.rs line 194 and captures(i), an  *)
(* unanchored leftmost search.  The pattern is: a quote, a name of any       *)
(* characters matched lazily, "<", a digit run, "><", "[U:", ONE digit, ":", *)
(* a digit run, "]", "><", an optional run of word characters, ">" and a     *)
(* quote.  The character classes are Unicode-aware: a digit is any decimal   *)
(* digit of any script, a word character any letter, mark, digit or          *)
(* connector of any script.                                                  *)

\* c lies in one of the ranges <<first, last>> of the table
InRanges(c, table) ==
    \E k \in 1..Len(table) : table[k][1] <= c /\ c <= table[k][2]

\* The scalar values of the general category Nd (Unicode 16.0), as ranges
DECIMAL_NUMBER ==
    <<
      <<48, 57>>, <<1632, 1641>>, <<1776, 1785>>, <<1984, 1993>>, <<2406, 2415>>, <<2534, 2543>>,
      <<2662, 2671>>, <<2790, 2799>>, <<2918, 2927>>, <<3046, 3055>>, <<3174, 3183>>, <<3302, 3311>>,
      <<3430, 3439>>, <<3558, 3567>>, <<3664, 3673>>, <<3792, 3801>>, <<3872, 3881>>, <<4160, 4169>>,
      <<4240, 4249>>, <<6112, 6121>>, <<6160, 6169>>, <<6470, 6479>>, <<6608, 6617>>, <<6784, 6793>>,
      <<6800, 6809>>, <<6992, 7001>>, <<7088, 7097>>, <<7232, 7241>>, <<7248, 7257>>, <<42528, 42537>>,
      <<43216, 43225>>, <<43264, 43273>>, <<43472, 43481>>, <<43504, 43513>>, <<43600, 43609>>, <<44016, 44025>>,
      <<65296, 65305>>, <<66720, 66729>>, <<68912, 68921>>, <<68928, 68937>>, <<69734, 69743>>, <<69872, 69881>>,
      <<69942, 69951>>, <<70096, 70105>>, <<70384, 70393>>, <<70736, 70745>>, <<70864, 70873>>, <<71248, 71257>>,
      <<71360, 71369>>, <<71376, 71395>>, <<71472, 71481>>, <<71904, 71913>>, <<72016, 72025>>, <<72688, 72697>>,
      <<72784, 72793>>, <<73040, 73049>>, <<73120, 73129>>, <<73552, 73561>>, <<90416, 90425>>, <<92768, 92777>>,
      <<92864, 92873>>, <<93008, 93017>>, <<93552, 93561>>, <<118000, 118009>>, <<120782, 120831>>, <<123200, 123209>>,
      <<123632, 123641>>, <<124144, 124153>>, <<124401, 124410>>, <<125264, 125273>>, <<130032, 130041>>
    >>

\* The scalar values that are Alphabetic, a mark (M), a decimal digit (Nd), a
\* connector punctuation (Pc) or a join control (Unicode 16.0), as ranges
PERL_WORD ==
    <<
      <<48, 57>>, <<65, 90>>, <<95, 95>>, <<97, 122>>, <<170, 170>>, <<181, 181>>,
      <<186, 186>>, <<192, 214>>, <<216, 246>>, <<248, 705>>, <<710, 721>>, <<736, 740>>,
      <<748, 748>>, <<750, 750>>, <<768, 884>>, <<886, 887>>, <<890, 893>>, <<895, 895>>,
      <<902, 902>>, <<904, 906>>, <<908, 908>>, <<910, 929>>, <<931, 1013>>, <<1015, 1153>>,
      <<1155, 1327>>, <<1329, 1366>>, <<1369, 1369>>, <<1376, 1416>>, <<1425, 1469>>, <<1471, 1471>>,
      <<1473, 1474>>, <<1476, 1477>>, <<1479, 1479>>, <<1488, 1514>>, <<1519, 1522>>, <<1552, 1562>>,
      <<1568, 1641>>, <<1646, 1747>>, <<1749, 1756>>, <<1759, 1768>>, <<1770, 1788>>, <<1791, 1791>>,
      <<1808, 1866>>, <<1869, 1969>>, <<1984, 2037>>, <<2042, 2042>>, <<2045, 2045>>, <<2048, 2093>>,
      <<2112, 2139>>, <<2144, 2154>>, <<2160, 2183>>, <<2185, 2190>>, <<2199, 2273>>, <<2275, 2403>>,
      <<2406, 2415>>, <<2417, 2435>>, <<2437, 2444>>, <<2447, 2448>>, <<2451, 2472>>, <<2474, 2480>>,
      <<2482, 2482>>, <<2486, 2489>>, <<2492, 2500>>, <<2503, 2504>>, <<2507, 2510>>, <<2519, 2519>>,
      <<2524, 2525>>, <<2527, 2531>>, <<2534, 2545>>, <<2556, 2556>>, <<2558, 2558>>, <<2561, 2563>>,
      <<2565, 2570>>, <<2575, 2576>>, <<2579, 2600>>, <<2602, 2608>>, <<2610, 2611>>, <<2613, 2614>>,
      <<2616, 2617>>, <<2620, 2620>>, <<2622, 2626>>, <<2631, 2632>>, <<2635, 2637>>, <<2641, 2641>>,
      <<2649, 2652>>, <<2654, 2654>>, <<2662, 2677>>, <<2689, 2691>>, <<2693, 2701>>, <<2703, 2705>>,
      <<2707, 2728>>, <<2730, 2736>>, <<2738, 2739>>, <<2741, 2745>>, <<2748, 2757>>, <<2759, 2761>>,
      <<2763, 2765>>, <<2768, 2768>>, <<2784, 2787>>, <<2790, 2799>>, <<2809, 2815>>, <<2817, 2819>>,
      <<2821, 2828>>, <<2831, 2832>>, <<2835, 2856>>, <<2858, 2864>>, <<2866, 2867>>, <<2869, 2873>>,
      <<2876, 2884>>, <<2887, 2888>>, <<2891, 2893>>, <<2901, 2903>>, <<2908, 2909>>, <<2911, 2915>>,
      <<2918, 2927>>, <<2929, 2929>>, <<2946, 2947>>, <<2949, 2954>>, <<2958, 2960>>, <<2962, 2965>>,
      <<2969, 2970>>, <<2972, 2972>>, <<2974, 2975>>, <<2979, 2980>>, <<2984, 2986>>, <<2990, 3001>>,
      <<3006, 3010>>, <<3014, 3016>>, <<3018, 3021>>, <<3024, 3024>>, <<3031, 3031>>, <<3046, 3055>>,
      <<3072, 3084>>, <<3086, 3088>>, <<3090, 3112>>, <<3114, 3129>>, <<3132, 3140>>, <<3142, 3144>>,
      <<3146, 3149>>, <<3157, 3158>>, <<3160, 3162>>, <<3165, 3165>>, <<3168, 3171>>, <<3174, 3183>>,
      <<3200, 3203>>, <<3205, 3212>>, <<3214, 3216>>, <<3218, 3240>>, <<3242, 3251>>, <<3253, 3257>>,
      <<3260, 3268>>, <<3270, 3272>>, <<3274, 3277>>, <<3285, 3286>>, <<3293, 3294>>, <<3296, 3299>>,
      <<3302, 3311>>, <<3313, 3315>>, <<3328, 3340>>, <<3342, 3344>>, <<3346, 3396>>, <<3398, 3400>>,
      <<3402, 3406>>, <<3412, 3415>>, <<3423, 3427>>, <<3430, 3439>>, <<3450, 3455>>, <<3457, 3459>>,
      <<3461, 3478>>, <<3482, 3505>>, <<3507, 3515>>, <<3517, 3517>>, <<3520, 3526>>, <<3530, 3530>>,
      <<3535, 3540>>, <<3542, 3542>>, <<3544, 3551>>, <<3558, 3567>>, <<3570, 3571>>, <<3585, 3642>>,
      <<3648, 3662>>, <<3664, 3673>>, <<3713, 3714>>, <<3716, 3716>>, <<3718, 3722>>, <<3724, 3747>>,
      <<3749, 3749>>, <<3751, 3773>>, <<3776, 3780>>, <<3782, 3782>>, <<3784, 3790>>, <<3792, 3801>>,
      <<3804, 3807>>, <<3840, 3840>>, <<3864, 3865>>, <<3872, 3881>>, <<3893, 3893>>, <<3895, 3895>>,
      <<3897, 3897>>, <<3902, 3911>>, <<3913, 3948>>, <<3953, 3972>>, <<3974, 3991>>, <<3993, 4028>>,
      <<4038, 4038>>, <<4096, 4169>>, <<4176, 4253>>, <<4256, 4293>>, <<4295, 4295>>, <<4301, 4301>>,
      <<4304, 4346>>, <<4348, 4680>>, <<4682, 4685>>, <<4688, 4694>>, <<4696, 4696>>, <<4698, 4701>>,
      <<4704, 4744>>, <<4746, 4749>>, <<4752, 4784>>, <<4786, 4789>>, <<4792, 4798>>, <<4800, 4800>>,
      <<4802, 4805>>, <<4808, 4822>>, <<4824, 4880>>, <<4882, 4885>>, <<4888, 4954>>, <<4957, 4959>>,
      <<4992, 5007>>, <<5024, 5109>>, <<5112, 5117>>, <<5121, 5740>>, <<5743, 5759>>, <<5761, 5786>>,
      <<5792, 5866>>, <<5870, 5880>>, <<5888, 5909>>, <<5919, 5940>>, <<5952, 5971>>, <<5984, 5996>>,
      <<5998, 6000>>, <<6002, 6003>>, <<6016, 6099>>, <<6103, 6103>>, <<6108, 6109>>, <<6112, 6121>>,
      <<6155, 6157>>, <<6159, 6169>>, <<6176, 6264>>, <<6272, 6314>>, <<6320, 6389>>, <<6400, 6430>>,
      <<6432, 6443>>, <<6448, 6459>>, <<6470, 6509>>, <<6512, 6516>>, <<6528, 6571>>, <<6576, 6601>>,
      <<6608, 6617>>, <<6656, 6683>>, <<6688, 6750>>, <<6752, 6780>>, <<6783, 6793>>, <<6800, 6809>>,
      <<6823, 6823>>, <<6832, 6862>>, <<6912, 6988>>, <<6992, 7001>>, <<7019, 7027>>, <<7040, 7155>>,
      <<7168, 7223>>, <<7232, 7241>>, <<7245, 7293>>, <<7296, 7306>>, <<7312, 7354>>, <<7357, 7359>>,
      <<7376, 7378>>, <<7380, 7418>>, <<7424, 7957>>, <<7960, 7965>>, <<7968, 8005>>, <<8008, 8013>>,
      <<8016, 8023>>, <<8025, 8025>>, <<8027, 8027>>, <<8029, 8029>>, <<8031, 8061>>, <<8064, 8116>>,
      <<8118, 8124>>, <<8126, 8126>>, <<8130, 8132>>, <<8134, 8140>>, <<8144, 8147>>, <<8150, 8155>>,
      <<8160, 8172>>, <<8178, 8180>>, <<8182, 8188>>, <<8204, 8205>>, <<8255, 8256>>, <<8276, 8276>>,
      <<8305, 8305>>, <<8319, 8319>>, <<8336, 8348>>, <<8400, 8432>>, <<8450, 8450>>, <<8455, 8455>>,
      <<8458, 8467>>, <<8469, 8469>>, <<8473, 8477>>, <<8484, 8484>>, <<8486, 8486>>, <<8488, 8488>>,
      <<8490, 8493>>, <<8495, 8505>>, <<8508, 8511>>, <<8517, 8521>>, <<8526, 8526>>, <<8544, 8584>>,
      <<9398, 9449>>, <<11264, 11492>>, <<11499, 11507>>, <<11520, 11557>>, <<11559, 11559>>, <<11565, 11565>>,
      <<11568, 11623>>, <<11631, 11631>>, <<11647, 11670>>, <<11680, 11686>>, <<11688, 11694>>, <<11696, 11702>>,
      <<11704, 11710>>, <<11712, 11718>>, <<11720, 11726>>, <<11728, 11734>>, <<11736, 11742>>, <<11744, 11775>>,
      <<11823, 11823>>, <<12293, 12295>>, <<12321, 12335>>, <<12337, 12341>>, <<12344, 12348>>, <<12353, 12438>>,
      <<12441, 12442>>, <<12445, 12447>>, <<12449, 12538>>, <<12540, 12543>>, <<12549, 12591>>, <<12593, 12686>>,
      <<12704, 12735>>, <<12784, 12799>>, <<13312, 19903>>, <<19968, 42124>>, <<42192, 42237>>, <<42240, 42508>>,
      <<42512, 42539>>, <<42560, 42610>>, <<42612, 42621>>, <<42623, 42737>>, <<42775, 42783>>, <<42786, 42888>>,
      <<42891, 42957>>, <<42960, 42961>>, <<42963, 42963>>, <<42965, 42972>>, <<42994, 43047>>, <<43052, 43052>>,
      <<43072, 43123>>, <<43136, 43205>>, <<43216, 43225>>, <<43232, 43255>>, <<43259, 43259>>, <<43261, 43309>>,
      <<43312, 43347>>, <<43360, 43388>>, <<43392, 43456>>, <<43471, 43481>>, <<43488, 43518>>, <<43520, 43574>>,
      <<43584, 43597>>, <<43600, 43609>>, <<43616, 43638>>, <<43642, 43714>>, <<43739, 43741>>, <<43744, 43759>>,
      <<43762, 43766>>, <<43777, 43782>>, <<43785, 43790>>, <<43793, 43798>>, <<43808, 43814>>, <<43816, 43822>>,
      <<43824, 43866>>, <<43868, 43881>>, <<43888, 44010>>, <<44012, 44013>>, <<44016, 44025>>, <<44032, 55203>>,
      <<55216, 55238>>, <<55243, 55291>>, <<63744, 64109>>, <<64112, 64217>>, <<64256, 64262>>, <<64275, 64279>>,
      <<64285, 64296>>, <<64298, 64310>>, <<64312, 64316>>, <<64318, 64318>>, <<64320, 64321>>, <<64323, 64324>>,
      <<64326, 64433>>, <<64467, 64829>>, <<64848, 64911>>, <<64914, 64967>>, <<65008, 65019>>, <<65024, 65039>>,
      <<65056, 65071>>, <<65075, 65076>>, <<65101, 65103>>, <<65136, 65140>>, <<65142, 65276>>, <<65296, 65305>>,
      <<65313, 65338>>, <<65343, 65343>>, <<65345, 65370>>, <<65382, 65470>>, <<65474, 65479>>, <<65482, 65487>>,
      <<65490, 65495>>, <<65498, 65500>>, <<65536, 65547>>, <<65549, 65574>>, <<65576, 65594>>, <<65596, 65597>>,
      <<65599, 65613>>, <<65616, 65629>>, <<65664, 65786>>, <<65856, 65908>>, <<66045, 66045>>, <<66176, 66204>>,
      <<66208, 66256>>, <<66272, 66272>>, <<66304, 66335>>, <<66349, 66378>>, <<66384, 66426>>, <<66432, 66461>>,
      <<66464, 66499>>, <<66504, 66511>>, <<66513, 66517>>, <<66560, 66717>>, <<66720, 66729>>, <<66736, 66771>>,
      <<66776, 66811>>, <<66816, 66855>>, <<66864, 66915>>, <<66928, 66938>>, <<66940, 66954>>, <<66956, 66962>>,
      <<66964, 66965>>, <<66967, 66977>>, <<66979, 66993>>, <<66995, 67001>>, <<67003, 67004>>, <<67008, 67059>>,
      <<67072, 67382>>, <<67392, 67413>>, <<67424, 67431>>, <<67456, 67461>>, <<67463, 67504>>, <<67506, 67514>>,
      <<67584, 67589>>, <<67592, 67592>>, <<67594, 67637>>, <<67639, 67640>>, <<67644, 67644>>, <<67647, 67669>>,
      <<67680, 67702>>, <<67712, 67742>>, <<67808, 67826>>, <<67828, 67829>>, <<67840, 67861>>, <<67872, 67897>>,
      <<67968, 68023>>, <<68030, 68031>>, <<68096, 68099>>, <<68101, 68102>>, <<68108, 68115>>, <<68117, 68119>>,
      <<68121, 68149>>, <<68152, 68154>>, <<68159, 68159>>, <<68192, 68220>>, <<68224, 68252>>, <<68288, 68295>>,
      <<68297, 68326>>, <<68352, 68405>>, <<68416, 68437>>, <<68448, 68466>>, <<68480, 68497>>, <<68608, 68680>>,
      <<68736, 68786>>, <<68800, 68850>>, <<68864, 68903>>, <<68912, 68921>>, <<68928, 68965>>, <<68969, 68973>>,
      <<68975, 68997>>, <<69248, 69289>>, <<69291, 69292>>, <<69296, 69297>>, <<69314, 69316>>, <<69372, 69404>>,
      <<69415, 69415>>, <<69424, 69456>>, <<69488, 69509>>, <<69552, 69572>>, <<69600, 69622>>, <<69632, 69702>>,
      <<69734, 69749>>, <<69759, 69818>>, <<69826, 69826>>, <<69840, 69864>>, <<69872, 69881>>, <<69888, 69940>>,
      <<69942, 69951>>, <<69956, 69959>>, <<69968, 70003>>, <<70006, 70006>>, <<70016, 70084>>, <<70089, 70092>>,
      <<70094, 70106>>, <<70108, 70108>>, <<70144, 70161>>, <<70163, 70199>>, <<70206, 70209>>, <<70272, 70278>>,
      <<70280, 70280>>, <<70282, 70285>>, <<70287, 70301>>, <<70303, 70312>>, <<70320, 70378>>, <<70384, 70393>>,
      <<70400, 70403>>, <<70405, 70412>>, <<70415, 70416>>, <<70419, 70440>>, <<70442, 70448>>, <<70450, 70451>>,
      <<70453, 70457>>, <<70459, 70468>>, <<70471, 70472>>, <<70475, 70477>>, <<70480, 70480>>, <<70487, 70487>>,
      <<70493, 70499>>, <<70502, 70508>>, <<70512, 70516>>, <<70528, 70537>>, <<70539, 70539>>, <<70542, 70542>>,
      <<70544, 70581>>, <<70583, 70592>>, <<70594, 70594>>, <<70597, 70597>>, <<70599, 70602>>, <<70604, 70611>>,
      <<70625, 70626>>, <<70656, 70730>>, <<70736, 70745>>, <<70750, 70753>>, <<70784, 70853>>, <<70855, 70855>>,
      <<70864, 70873>>, <<71040, 71093>>, <<71096, 71104>>, <<71128, 71133>>, <<71168, 71232>>, <<71236, 71236>>,
      <<71248, 71257>>, <<71296, 71352>>, <<71360, 71369>>, <<71376, 71395>>, <<71424, 71450>>, <<71453, 71467>>,
      <<71472, 71481>>, <<71488, 71494>>, <<71680, 71738>>, <<71840, 71913>>, <<71935, 71942>>, <<71945, 71945>>,
      <<71948, 71955>>, <<71957, 71958>>, <<71960, 71989>>, <<71991, 71992>>, <<71995, 72003>>, <<72016, 72025>>,
      <<72096, 72103>>, <<72106, 72151>>, <<72154, 72161>>, <<72163, 72164>>, <<72192, 72254>>, <<72263, 72263>>,
      <<72272, 72345>>, <<72349, 72349>>, <<72368, 72440>>, <<72640, 72672>>, <<72688, 72697>>, <<72704, 72712>>,
      <<72714, 72758>>, <<72760, 72768>>, <<72784, 72793>>, <<72818, 72847>>, <<72850, 72871>>, <<72873, 72886>>,
      <<72960, 72966>>, <<72968, 72969>>, <<72971, 73014>>, <<73018, 73018>>, <<73020, 73021>>, <<73023, 73031>>,
      <<73040, 73049>>, <<73056, 73061>>, <<73063, 73064>>, <<73066, 73102>>, <<73104, 73105>>, <<73107, 73112>>,
      <<73120, 73129>>, <<73440, 73462>>, <<73472, 73488>>, <<73490, 73530>>, <<73534, 73538>>, <<73552, 73562>>,
      <<73648, 73648>>, <<73728, 74649>>, <<74752, 74862>>, <<74880, 75075>>, <<77712, 77808>>, <<77824, 78895>>,
      <<78912, 78933>>, <<78944, 82938>>, <<82944, 83526>>, <<90368, 90425>>, <<92160, 92728>>, <<92736, 92766>>,
      <<92768, 92777>>, <<92784, 92862>>, <<92864, 92873>>, <<92880, 92909>>, <<92912, 92916>>, <<92928, 92982>>,
      <<92992, 92995>>, <<93008, 93017>>, <<93027, 93047>>, <<93053, 93071>>, <<93504, 93548>>, <<93552, 93561>>,
      <<93760, 93823>>, <<93952, 94026>>, <<94031, 94087>>, <<94095, 94111>>, <<94176, 94177>>, <<94179, 94180>>,
      <<94192, 94193>>, <<94208, 100343>>, <<100352, 101589>>, <<101631, 101640>>, <<110576, 110579>>, <<110581, 110587>>,
      <<110589, 110590>>, <<110592, 110882>>, <<110898, 110898>>, <<110928, 110930>>, <<110933, 110933>>, <<110948, 110951>>,
      <<110960, 111355>>, <<113664, 113770>>, <<113776, 113788>>, <<113792, 113800>>, <<113808, 113817>>, <<113821, 113822>>,
      <<118000, 118009>>, <<118528, 118573>>, <<118576, 118598>>, <<119141, 119145>>, <<119149, 119154>>, <<119163, 119170>>,
      <<119173, 119179>>, <<119210, 119213>>, <<119362, 119364>>, <<119808, 119892>>, <<119894, 119964>>, <<119966, 119967>>,
      <<119970, 119970>>, <<119973, 119974>>, <<119977, 119980>>, <<119982, 119993>>, <<119995, 119995>>, <<119997, 120003>>,
      <<120005, 120069>>, <<120071, 120074>>, <<120077, 120084>>, <<120086, 120092>>, <<120094, 120121>>, <<120123, 120126>>,
      <<120128, 120132>>, <<120134, 120134>>, <<120138, 120144>>, <<120146, 120485>>, <<120488, 120512>>, <<120514, 120538>>,
      <<120540, 120570>>, <<120572, 120596>>, <<120598, 120628>>, <<120630, 120654>>, <<120656, 120686>>, <<120688, 120712>>,
      <<120714, 120744>>, <<120746, 120770>>, <<120772, 120779>>, <<120782, 120831>>, <<121344, 121398>>, <<121403, 121452>>,
      <<121461, 121461>>, <<121476, 121476>>, <<121499, 121503>>, <<121505, 121519>>, <<122624, 122654>>, <<122661, 122666>>,
      <<122880, 122886>>, <<122888, 122904>>, <<122907, 122913>>, <<122915, 122916>>, <<122918, 122922>>, <<122928, 122989>>,
      <<123023, 123023>>, <<123136, 123180>>, <<123184, 123197>>, <<123200, 123209>>, <<123214, 123214>>, <<123536, 123566>>,
      <<123584, 123641>>, <<124112, 124153>>, <<124368, 124410>>, <<124896, 124902>>, <<124904, 124907>>, <<124909, 124910>>,
      <<124912, 124926>>, <<124928, 125124>>, <<125136, 125142>>, <<125184, 125259>>, <<125264, 125273>>, <<126464, 126467>>,
      <<126469, 126495>>, <<126497, 126498>>, <<126500, 126500>>, <<126503, 126503>>, <<126505, 126514>>, <<126516, 126519>>,
      <<126521, 126521>>, <<126523, 126523>>, <<126530, 126530>>, <<126535, 126535>>, <<126537, 126537>>, <<126539, 126539>>,
      <<126541, 126543>>, <<126545, 126546>>, <<126548, 126548>>, <<126551, 126551>>, <<126553, 126553>>, <<126555, 126555>>,
      <<126557, 126557>>, <<126559, 126559>>, <<126561, 126562>>, <<126564, 126564>>, <<126567, 126570>>, <<126572, 126578>>,
      <<126580, 126583>>, <<126585, 126588>>, <<126590, 126590>>, <<126592, 126601>>, <<126603, 126619>>, <<126625, 126627>>,
      <<126629, 126633>>, <<126635, 126651>>, <<127280, 127305>>, <<127312, 127337>>, <<127344, 127369>>, <<130032, 130041>>,
      <<131072, 173791>>, <<173824, 177977>>, <<177984, 178205>>, <<178208, 183969>>, <<183984, 191456>>, <<191472, 192093>>,
      <<194560, 195101>>, <<196608, 201546>>, <<201552, 205743>>, <<917760, 917999>>
    >>

\* \d
IsReDigit(c) == InRanges(c, DECIMAL_NUMBER)

\* \w
IsReWord(c) == InRanges(c, PERL_WORD)

\* . (any character but the line feed)
IsReDot(c) == c # 10

\* The pattern after the name at the start of s, with runs of the lengths
\* nu (session id), nd (universe digits), nn (account digits) and nt (team):
\*   < uid > < [ U : d : n ] > < team > "
ReTailOf(s, nu, nd, nn, nt) ==
    IF /\ s # <<>> /\ s[1] = 60
       /\ nu >= 1
       /\ Slice(s, nu + 2, nu + 6) = <<62, 60, 91, 85, 58>>
       /\ nd >= 1
       /\ Slice(s, nu + nd + 7, nu + nd + 7) = <<58>>
       /\ nn >= 1
       /\ Slice(s, nu + nd + nn + 8, nu + nd + nn + 10) = <<93, 62, 60>>
       /\ Slice(s, nu + nd + nn + nt + 11, nu + nd + nn + nt + 12) = <<62, 34>>
    THEN [ok |-> TRUE, len |-> nu + nd + nn + nt + 12,
          uid |-> SubSeq(s, 2, nu + 1),
          steamid |-> SubSeq(s, nu + 4, nu + nd + nn + 8),
          team |-> SubSeq(s, nu + nd + nn + 11, nu + nd + nn + nt + 10)]
    ELSE [ok |-> FALSE]

\* A mutant of ReTail: the universe of the steam id is a digit run of any
\* length, as the session id and the account number are.
ReTail_digitRun(s) ==
    LET nu == PrefixLen(IsReDigit, Drop(s, 1))
        nd == PrefixLen(IsReDigit, Drop(s, nu + 6))
        nn == PrefixLen(IsReDigit, Drop(s, nu + nd + 7))
        nt == PrefixLen(IsReWord, Drop(s, nu + nd + nn + 10))
    IN  ReTailOf(s, nu, nd, nn, nt)

\* The pattern after the name, from "<" to the closing quote, at the start of
\* s.  Each greedy run is followed by a character outside its class, so the
\* longest run is the only candidate; the universe is ONE digit.
ReTail(s) ==
    LET nu == PrefixLen(IsReDigit, Drop(s, 1))
        nd == IF PrefixLen(IsReDigit, Drop(s, nu + 6)) >= 1 THEN 1 ELSE 0
        nn == PrefixLen(IsReDigit, Drop(s, nu + nd + 7))
        nt == PrefixLen(IsReWord, Drop(s, nu + nd + nn + 10))
    IN  ReTailOf(s, nu, nd, nn, nt)

\* The ends e of the names with which the pattern matches from the quote
\* at position s: i[s+1..e-1] is the name and the rest matches from i[e].
ReNameEnds(i, s) ==
    {e \in (s + 1)..Len(i) :
        /\ \A j \in (s + 1)..(e - 1) : IsReDot(i[j])
        /\ ReTail(Drop(i, e - 1)).ok}

\* Positions where a match starts
ReStarts(i) == {s \in 1..Len(i) : i[s] = 34 /\ ReNameEnds(i, s) # {}}

\* The match that starts at s with the name ending before e, t its tail
ReMatch(i, s, e, t) ==
    [ok |-> TRUE, start |-> s, len |-> (e - s) + t.len,
     name |-> SubSeq(i, s + 1, e - 1),
     uid |-> t.uid, steamid |-> t.steamid, team |-> t.team]

\* The leftmost match among the starts, with the shortest name
ReLeftmost(i, starts) ==
    IF starts = {} THEN [ok |-> FALSE]
    ELSE LET e == Min(ReNameEnds(i, Min(starts))) IN
         ReMatch(i, Min(starts), e, ReTail(Drop(i, e - 1)))

\* re.captures(i)
ReCaptures(i) == ReLeftmost(i, ReStarts(i))

\* The length in bytes of the UTF-8 encoding of s
ByteLen(s) ==
    Len(s) + Cardinality({k \in 1..Len(s) : LenUtf8(s[k]) >= 2})
           + Cardinality({k \in 1..Len(s) : LenUtf8(s[k]) >= 3})
           + Cardinality({k \in 1..Len(s) : LenUtf8(s[k]) >= 4})

\* &i[n..] with n a byte offset: a panic when n is not the end of a character
SliceFrom(i, n) ==
    IF \E k \in 0..Len(i) : ByteLen(Take(i, k)) = n
    THEN OkVal(Drop(i, CHOOSE k \in 0..Len(i) : ByteLen(Take(i, k)) = n))
    ELSE Panic

\* parsers.rs 196-216 with caps the captures: rest is &i[len..] with len the
\* byte length of the match, uid is uid.parse().unwrap()
UserOf(i, caps, rest, uid) ==
    IF rest.st = "panic" \/ ~uid.ok THEN Panic
    ELSE Ok(rest.val, [name |-> caps.name, uid |-> uid.v,
                       steamid |-> caps.steamid, team |-> caps.team])

UserAt(i, caps) ==
    IF ~caps.ok THEN Error
    ELSE UserOf(i, caps,
                SliceFrom(i, ByteLen(SubSeq(i, caps.start, caps.start + caps.len - 1))),
                ParseU32(caps.uid))

\* parsers.rs 193-217.  The remaining input is cut at the LENGTH of the match,
\* counted from the start of i.
user(i) == UserAt(i, ReCaptures(i))

----------------------------------------------------------------------------
(* The literals of parsers.rs *)

\* the literal 'rcon from '
TAG_rcon_from == <<114, 99, 111, 110, 32, 102, 114, 111, 109, 32>>

\* the literal ': command '
TAG_command == <<58, 32, 99, 111, 109, 109, 97, 110, 100, 32>>

\* the literal 'log file closed'
TAG_log_file_closed == <<108, 111, 103, 32, 102, 105, 108, 101, 32, 99, 108, 111, 115, 101, 100>>

\* the literal 'server cvars start'
TAG_server_cvars_start == <<115, 101, 114, 118, 101, 114, 32, 99, 118, 97, 114, 115, 32, 115, 116, 97, 114, 116>>

\* the literal 'server cvars end'
TAG_server_cvars_end == <<115, 101, 114, 118, 101, 114, 32, 99, 118, 97, 114, 115, 32, 101, 110, 100>>

\* the literal 'loading map '
TAG_loading_map == <<108, 111, 97, 100, 105, 110, 103, 32, 109, 97, 112, 32>>

\* the literal 'started map '
TAG_started_map == <<115, 116, 97, 114, 116, 101, 100, 32, 109, 97, 112, 32>>

\* the literal 'log file started '
TAG_log_file_started == <<108, 111, 103, 32, 102, 105, 108, 101, 32, 115, 116, 97, 114, 116, 101, 100, 32>>

\* the literal ' joined team '
TAG_joined_team == <<32, 106, 111, 105, 110, 101, 100, 32, 116, 101, 97, 109, 32>>

\* the literal ' triggered '
TAG_triggered == <<32, 116, 114, 105, 103, 103, 101, 114, 101, 100, 32>>

\* the literal ' against '
TAG_against == <<32, 97, 103, 97, 105, 110, 115, 116, 32>>

\* the literal ' disconnected (reason '
TAG_disconnected == <<32, 100, 105, 115, 99, 111, 110, 110, 101, 99, 116, 101, 100, 32, 40, 114, 101, 97, 115, 111, 110, 32>>

\* the literal '")'
TAG_reason_end == <<34, 41>>

\* the literal ' connected, address '
TAG_connected == <<32, 99, 111, 110, 110, 101, 99, 116, 101, 100, 44, 32, 97, 100, 100, 114, 101, 115, 115, 32>>

\* the literal ' say '
TAG_say == <<32, 115, 97, 121, 32>>

\* the literal ' say_team '
TAG_say_team == <<32, 115, 97, 121, 95, 116, 101, 97, 109, 32>>


----------------------------------------------------------------------------
(* Primitive parsers.  In Steps(<<...>>, LAMBDA r : ...), r[k] is the      *)
(* result of the k-th step.                                                *)

\* A mutant of kv_pair: an unquoted value, running up to ')', is accepted too.
kv_pair_unquoted(i) ==
    LET a == char(40, i)
        k == After(a, LAMBDA x : take_until(32, x))
        s == After(k, LAMBDA x : char(32, x))
        v == After(s, LAMBDA x : or(quoted1(x), take_until(41, x)))
        z == After(v, LAMBDA x : char(41, x))
    IN  Steps(<<a, k, s, v, z>>, LAMBDA r : Ok(r[5].rest, <<r[2].val, r[4].val>>))

\* parsers.rs 109-122
kv_pair(i) ==
    LET a == char(40, i)
        k == After(a, LAMBDA x : take_until(32, x))
        s == After(k, LAMBDA x : char(32, x))
        q == After(s, LAMBDA x : char(34, x))
        v == After(q, LAMBDA x : take_until(34, x))
        c == After(v, LAMBDA x : char(34, x))
        z == After(c, LAMBDA x : char(41, x))
    IN  Steps(<<a, k, s, q, v, c, z>>, LAMBDA r : Ok(r[7].rest, <<r[2].val, r[5].val>>))

\* map_res: an Err of the mapping function is Err::Error
MapRes(rest, p) == IF p.ok THEN Ok(rest, p.v) ELSE Error

\* A mutant of port: the port is parsed as u8
port_asOctet(i) == Bind(digit1(i), LAMBDA d : MapRes(d.rest, ParseU8(d.val)))

\* parsers.rs 161-168
port(i) == Bind(digit1(i), LAMBDA d : MapRes(d.rest, ParseU16(d.val)))

\* parsers.rs 182-189: each octet is parsed as u8 and unwrapped
Octets(rest, o) ==
    IF \A k \in 1..4 : o[k].ok
    THEN Ok(rest, <<o[1].v, o[2].v, o[3].v, o[4].v>>)
    ELSE Panic

\* parsers.rs 170-191
ipv4(i) ==
    LET a  == digit1(i)
        p1 == After(a, LAMBDA x : char(46, x))
        b  == After(p1, digit1)
        p2 == After(b, LAMBDA x : char(46, x))
        c  == After(p2, digit1)
        p3 == After(c, LAMBDA x : char(46, x))
        d  == After(p3, digit1)
    IN  Steps(<<a, p1, b, p2, c, p3, d>>,
              LAMBDA r : Octets(r[7].rest, <<ParseU8(r[1].val), ParseU8(r[3].val),
                                             ParseU8(r[5].val), ParseU8(r[7].val)>>))

\* A mutant of ipv4_with_port: ':' and the port are optional (port 0 without)
ipv4_with_port_optional(i) ==
    Bind(ipv4(i), LAMBDA a :
    Bind(or(After(char(58, a.rest), port), Ok(a.rest, 0)), LAMBDA p :
         Ok(p.rest, <<a.val, p.val>>)))

\* parsers.rs 154-159
ipv4_with_port(i) ==
    Bind(ipv4(i), LAMBDA a :
    Bind(After(char(58, a.rest), port), LAMBDA p :
         Ok(p.rest, <<a.val, p.val>>)))

\* delimited(char('"'), ipv4_with_port, char('"'))
quoted_ipv4_with_port(i) ==
    Bind(After(char(34, i), ipv4_with_port), LAMBDA b :
    Bind(char(34, b.rest), LAMBDA c : Ok(c.rest, b.val)))

----------------------------------------------------------------------------
(* Message-shape parsers (parsers.rs).  A MessageType is a record whose    *)
(* type field names the variant.                                           *)

\* parsers.rs 36-49
rcon(i) ==
    Bind(After(tag_no_case(TAG_rcon_from, i), quoted_ipv4_with_port), LAMBDA b :
    Bind(After(tag(TAG_command, b.rest), quoted1), LAMBDA d :
         Ok(d.rest, [type |-> "Rcon", ip |-> b.val[1], port |-> b.val[2],
                     command |-> d.val])))

\* parsers.rs 51-54: the input is returned whole
log_file_closed(i) ==
    Bind(tag_no_case(TAG_log_file_closed, i), LAMBDA a : Ok(i, [type |-> "LogFileClosed"]))

\* parsers.rs 56-59
server_cvars_start(i) ==
    Bind(tag_no_case(TAG_server_cvars_start, i),
         LAMBDA a : Ok(i, [type |-> "ServerCvarsStart"]))

\* parsers.rs 61-64
server_cvars_end(i) ==
    Bind(tag_no_case(TAG_server_cvars_end, i), LAMBDA a : Ok(i, [type |-> "ServerCvarsEnd"]))

\* parsers.rs 66-75: the tag is case-sensitive
loading_map(i) ==
    Bind(After(tag(TAG_loading_map, i), quoted1), LAMBDA b :
         Ok(b.rest, [type |-> "LoadingMap", name |-> b.val]))

\* parsers.rs 77-89
starting_map(i) ==
    Bind(After(tag_no_case(TAG_started_map, i), quoted1), LAMBDA b :
    Bind(After(take_while_whitespace(b.rest), kv_pair), LAMBDA c :
         Ok(c.rest, [type |-> "StartedMap", name |-> b.val, crc |-> c.val[2]])))

\* parsers.rs 91-107
log_file_started(i) ==
    Bind(After(tag_no_case(TAG_log_file_started, i), kv_pair), LAMBDA f :
    Bind(After(take_while1_whitespace(f.rest), kv_pair), LAMBDA g :
    Bind(After(take_while1_whitespace(g.rest), kv_pair), LAMBDA v :
         Ok(v.rest, [type |-> "LogFileStarted", file |-> f.val[2],
                     game |-> g.val[2], version |-> v.val[2]]))))

\* parsers.rs 124-135
join_team_msg(i) ==
    Bind(user(i), LAMBDA u :
    Bind(After(tag(TAG_joined_team, u.rest), quoted1), LAMBDA b :
         Ok(b.rest, [type |-> "JoinedTeam", user |-> u.val, team |-> b.val])))

\* parsers.rs 137-152
inter_player_action(i) ==
    Bind(user(i), LAMBDA u :
    Bind(After(tag_no_case(TAG_triggered, u.rest), quoted1), LAMBDA b :
    Bind(After(tag_no_case(TAG_against, b.rest), user), LAMBDA v :
         Ok(v.rest, [type |-> "InterPlayerAction", from |-> u.val,
                     action |-> b.val, against |-> v.val]))))

\* The reason of a disconnect message: a quote, the text up to the next
\* quote, which must not be empty, and '")'
Reason(i) ==
    LET q == char(34, i)
        b == After(q, LAMBDA x : take_until1(34, x))
        c == After(b, LAMBDA x : tag(TAG_reason_end, x))
    IN  Steps(<<q, b, c>>, LAMBDA r : Ok(r[3].rest, r[2].val))

\* parsers.rs 219-230
disconnect_message(i) ==
    Bind(user(i), LAMBDA u :
    Bind(After(tag(TAG_disconnected, u.rest), Reason), LAMBDA b :
         Ok(b.rest, [type |-> "Disconnected", user |-> u.val, reason |-> b.val])))

\* parsers.rs 232-237
connect_message(i) ==
    Bind(user(i), LAMBDA u :
    Bind(After(tag(TAG_connected, u.rest), quoted_ipv4_with_port), LAMBDA b :
         Ok(b.rest, [type |-> "Connected", user |-> u.val,
                     ip |-> b.val[1], port |-> b.val[2]])))

\* parsers.rs 239-252
chat_message(i) ==
    Bind(user(i), LAMBDA u :
    Bind(or(tag(TAG_say, u.rest), tag(TAG_say_team, u.rest)), LAMBDA say :
    Bind(quoted1(say.rest), LAMBDA b :
         Ok(b.rest, [type |-> "ChatMessage", from |-> u.val, message |-> b.val,
                     team |-> (say.val = TAG_say_team)]))))

----------------------------------------------------------------------------
(* The grammar dispatcher *)

\* A mutant of get_message_type: inter_player_action is left out of the chain.
get_message_type_noAction(i) ==
    FirstOf(<<log_file_started(i), log_file_closed(i), server_cvars_start(i),
              server_cvars_end(i), loading_map(i), starting_map(i), rcon(i),
              chat_message(i), connect_message(i), disconnect_message(i),
              join_team_msg(i)>>)

\* parsers.rs 20-34
get_message_type(i) ==
    FirstOf(<<log_file_started(i), log_file_closed(i), server_cvars_start(i),
              server_cvars_end(i), loading_map(i), starting_map(i), rcon(i),
              chat_message(i), connect_message(i), disconnect_message(i),
              inter_player_action(i), join_team_msg(i)>>)

Unknown == [type |-> "Unknown"]

\* The Option of message_type.rs 70-73: Ok((_, v)) is v, an Err is Unknown
MessageOf(r) ==
    CASE r.st = "ok"  -> OkVal(r.val)
      [] r.st = "err" -> OkVal(Unknown)
      [] OTHER        -> Panic

\* message_type.rs 69-74: a panic of a parser is a panic of from_message
from_message(msg) == MessageOf(get_message_type(msg))

----------------------------------------------------------------------------
(* The calls checked.  Every input is built from parts drawn from small    *)
(* sets; gen records the parts of a built input.                           *)

\* Longest secret (bytes after the indicator byte) of a generated header
MaxSecretLen == 2

\* Most copies of the four 0xFF bytes in front of a generated header
MaxPrefix == 2

\* Longest player name of a generated identity
MaxNameLen == 2

\* Longest key and longest value of a generated key/value pair
MaxKvLen == 2

\* All sequences over A of length at most n
Strings(A, n) == UNION {[1..k -> A] : k \in 0..n}

RECURSIVE Repeat(_, _)
Repeat(s, k) == IF k = 0 THEN <<>> ELSE s \o Repeat(s, k - 1)

\* Header bytes: 'n', the line marker 'L', 0xFF, and 0xC3 0xA9 (UTF-8 of U+00E9;
\* either byte alone is ill-formed)
SecretBytes == {110, 76, 255, 195, 169}

\* no indicator, 'S', 'R', 'K'
Indicators == {<<>>, <<83>>, <<82>>, <<75>>}

GenHeaders ==
    {Repeat(PACKET_HEADER, k) \o ind \o b :
        k \in 0..MaxPrefix, ind \in Indicators, b \in Strings(SecretBytes, MaxSecretLen)}

\* "", "R", "Snya", 0xFF x 4 "Snya", "K", 0xFF x 4
FewHeaders ==
    {<<>>, <<82>>, <<83, 110, 121, 97>>, PACKET_HEADER \o <<83, 110, 121, 97>>,
     <<75>>, PACKET_HEADER}

\* "L ", "L", no marker
GenMarkers == {<<76, 32>>, <<76>>, <<>>}

\* Texts in the place of the timestamp prefix:
\*   '02/09/2024 - 08:00:50: '
\*   '02/09/2024 - 08:00:50:'
\*   '2/9/2024-8:0:50:'
\*   '02/29/2024 - 23:59:60: '
\*   '02/29/2023 - 08:00:50: '
\*   '02/30/2024 - 08:00:50: '
\*   '13/01/2024 - 08:00:50: '
\*   '02/09/2024 - 24:00:00: '
\*   '02/09/-0044 - 08:00:50: '
\*   ''
GenStamps ==
    { <<48, 50, 47, 48, 57, 47, 50, 48, 50, 52, 32, 45, 32, 48, 56, 58, 48, 48, 58, 53, 48, 58, 32>>,
      <<48, 50, 47, 48, 57, 47, 50, 48, 50, 52, 32, 45, 32, 48, 56, 58, 48, 48, 58, 53, 48, 58>>,
      <<50, 47, 57, 47, 50, 48, 50, 52, 45, 56, 58, 48, 58, 53, 48, 58>>,
      <<48, 50, 47, 50, 57, 47, 50, 48, 50, 52, 32, 45, 32, 50, 51, 58, 53, 57, 58, 54, 48, 58, 32>>,
      <<48, 50, 47, 50, 57, 47, 50, 48, 50, 51, 32, 45, 32, 48, 56, 58, 48, 48, 58, 53, 48, 58, 32>>,
      <<48, 50, 47, 51, 48, 47, 50, 48, 50, 52, 32, 45, 32, 48, 56, 58, 48, 48, 58, 53, 48, 58, 32>>,
      <<49, 51, 47, 48, 49, 47, 50, 48, 50, 52, 32, 45, 32, 48, 56, 58, 48, 48, 58, 53, 48, 58, 32>>,
      <<48, 50, 47, 48, 57, 47, 50, 48, 50, 52, 32, 45, 32, 50, 52, 58, 48, 48, 58, 48, 48, 58, 32>>,
      <<48, 50, 47, 48, 57, 47, 45, 48, 48, 52, 52, 32, 45, 32, 48, 56, 58, 48, 48, 58, 53, 48, 58, 32>>,
      <<>> }

\* Bytes after the timestamp prefix:
\*   b''
\*   b'hi'
\*   b'  hi'
\*   b'\thi '
\*   b'\xffx\xc3\xa9'
\*   b'"Alice<6><[U:1:1324124512]><>" connected, address "192.168.0.1:27015"'
GenBodies ==
    { <<>>,
      <<104, 105>>,
      <<32, 32, 104, 105>>,
      <<9, 104, 105, 32>>,
      <<255, 120, 195, 169>>,
      <<34, 65, 108, 105, 99, 101, 60, 54, 62, 60, 91, 85, 58, 49, 58, 49, 51, 50, 52, 49, 50, 52, 53, 49, 50, 93, 62, 60, 62, 34, 32, 99, 111, 110, 110, 101, 99, 116, 101, 100, 44, 32, 97, 100, 100, 114, 101, 115, 115, 32, 34, 49, 57, 50, 46, 49, 54, 56, 46, 48, 46, 49, 58, 50, 55, 48, 49, 53, 34>> }

GoodStamp == <<48, 50, 47, 48, 57, 47, 50, 48, 50, 52, 32, 45, 32, 48, 56, 58, 48, 48, 58, 53, 48, 58, 32>>

\* Every generated header in front of "L ", the first timestamp and "hi"; the
\* few headers with every marker, timestamp text and body
BufferGens ==
    {[kind |-> "bytes", header |-> h, marker |-> <<76, 32>>, stamp |-> GoodStamp,
      body |-> <<104, 105>>] : h \in GenHeaders}
    \cup
    {[kind |-> "bytes", header |-> h, marker |-> m, stamp |-> s, body |-> b] :
        h \in FewHeaders, m \in GenMarkers, s \in GenStamps, b \in GenBodies}

RenderBufferGen(g) == g.header \o g.marker \o g.stamp \o g.body

\* The text of a player identity with the parts u
RenderUser(u) ==
    <<34>> \o u.name \o <<60>> \o u.uid \o <<62, 60, 91, 85, 58>> \o u.d \o <<58>> \o u.n
           \o <<93, 62, 60>> \o u.team \o <<62, 34>>

\* "a<6><[U:1:2]><>"
User0 == [name |-> <<97>>, uid |-> <<54>>, d |-> <<49>>, n |-> <<50>>, team |-> <<>>]

\* "6", "007", "4294967295" (u32::MAX), "4294967296", and U+0663 (the
\* Arabic-Indic digit three)
GenUids ==
    {<<54>>, <<48, 48, 55>>,
     <<52, 50, 57, 52, 57, 54, 55, 50, 57, 53>>, <<52, 50, 57, 52, 57, 54, 55, 50, 57, 54>>,
     <<1635>>}

\* "", "Red", "a_b", "x-y", and U+0416 (the Cyrillic letter Zhe)
GenTeams == {<<>>, <<82, 101, 100>>, <<97, 95, 98>>, <<120, 45, 121>>, <<1046>>}

\* Names for the identity parser alone: 'a', '<', '"' and the line feed
NameChars == {97, 60, 34, 10}

\* Names inside a message body, which is one line: 'a', '<', '"'
LineNameChars == {97, 60, 34}

\* "", "x", "x\"", and fifteen 'x' with U+00E9 (two bytes in UTF-8): text in
\* front of an identity
GenPres ==
    {<<>>, <<120>>, <<120, 34>>,
     <<120, 120, 120, 120, 120, 120, 120, 120, 120, 120, 120, 120, 120, 120, 120, 233>>}

\* "", " say": text after an identity
GenPosts == {<<>>, <<32, 115, 97, 121>>}

UserGens ==
    {[kind |-> "user", u |-> [User0 EXCEPT !.name = nm], pre |-> pre, post |-> post] :
        nm \in Strings(NameChars, MaxNameLen), pre \in GenPres, post \in GenPosts}
    \cup
    {[kind |-> "user",
      u |-> [name |-> nm, uid |-> id, d |-> d, n |-> n, team |-> tm],
      pre |-> <<>>, post |-> <<>>] :
        nm \in {<<97>>, <<97, 60, 98>>}, id \in GenUids \cup {<<>>},
        d \in {<<49>>, <<49, 50>>, <<>>, <<1635>>},
        n \in {<<50>>, <<49, 50, 51>>, <<>>, <<1635>>},
        tm \in GenTeams}
    \cup
    {[kind |-> "user", u |-> [User0 EXCEPT !.uid = id],
      pre |-> <<>>, post |-> RenderUser([User0 EXCEPT !.name = <<98>>])] :
        id \in GenUids}

RenderUserGen(g) == g.pre \o RenderUser(g.u) \o g.post

\* Identities inside generated message bodies
MsgUsers ==
    {[User0 EXCEPT !.name = nm, !.uid = id, !.team = tm] :
        nm \in Strings(LineNameChars, MaxNameLen), id \in GenUids,
        tm \in {<<>>, <<82, 101, 100>>, <<1046>>}}
    \cup {[User0 EXCEPT !.d = <<49, 50>>], [User0 EXCEPT !.team = <<120, 45, 121>>]}

\* "Bob<2><[U:1:3]><Blue>", one with a session id of 2^32, one with a two-digit
\* account universe
FewUsers ==
    {User0,
     [name |-> <<66, 111, 98>>, uid |-> <<50>>, d |-> <<49>>, n |-> <<51>>,
      team |-> <<66, 108, 117, 101>>],
     [User0 EXCEPT !.uid = <<52, 50, 57, 52, 57, 54, 55, 50, 57, 54>>],
     [User0 EXCEPT !.d = <<49, 50>>]}

\* "0", "1", "255", "256", "007", "192"
OctetTexts == {<<48>>, <<49>>, <<50, 53, 53>>, <<50, 53, 54>>, <<48, 48, 55>>, <<49, 57, 50>>}

\* "0", "27015", "65535", "65536", "00080"
PortTexts ==
    {<<48>>, <<50, 55, 48, 49, 53>>, <<54, 53, 53, 51, 53>>, <<54, 53, 53, 51, 54>>,
     <<48, 48, 48, 56, 48>>}

\* a.168.0.d for the generated a and d
GenAddrs == {<<a, <<49, 54, 56>>, <<48>>, d>> : a \in OctetTexts, d \in OctetTexts}

RenderAddr(o, hasPort, p) ==
    o[1] \o <<46>> \o o[2] \o <<46>> \o o[3] \o <<46>> \o o[4]
         \o (IF hasPort THEN <<58>> \o p ELSE <<>>)

AddrGens ==
    {[kind |-> "addr", o |-> o, hasPort |-> hp, p |-> p, post |-> post] :
        o \in GenAddrs, hp \in BOOLEAN, p \in PortTexts, post \in {<<>>, <<34>>}}

RenderAddrGen(g) == RenderAddr(g.o, g.hasPort, g.p) \o g.post

\* Keys: 'k', ' ', '('      Values: 'v', ' ', '"', ')'
KvGens ==
    {[kind |-> "kv", key |-> k, value |-> v, quoted |-> q, post |-> post] :
        k \in Strings({107, 32, 40}, MaxKvLen), v \in Strings({118, 32, 34, 41}, MaxKvLen),
        q \in BOOLEAN, post \in {<<>>, <<32, 120>>}}

RenderKvGen(g) ==
    <<40>> \o g.key \o <<32>>
           \o (IF g.quoted THEN <<34>> \o g.value \o <<34>> ELSE g.value)
           \o <<41>> \o g.post

\* Bodies of the player shapes
ConnectGens ==
    {[kind |-> "connect", u |-> u, o |-> <<<<49, 57, 50>>, <<49, 54, 56>>, <<48>>, <<49>>>>,
      hasPort |-> TRUE, p |-> <<50, 55, 48, 49, 53>>] : u \in MsgUsers}
    \cup
    {[kind |-> "connect", u |-> User0, o |-> o, hasPort |-> hp, p |-> p] :
        o \in GenAddrs, hp \in BOOLEAN, p \in PortTexts}

\* " triggered ", " TRIGGERED ", " joined team "
ActionGens ==
    {[kind |-> "action", u |-> u, verb |-> verb, action |-> a, against |-> v] :
        u \in FewUsers, v \in FewUsers,
        verb \in {TAG_triggered, <<32, 84, 82, 73, 71, 71, 69, 82, 69, 68, 32>>, TAG_joined_team},
        a \in {<<100, 111, 109>>, <<>>}}

\* A player shape with one quoted text: " say ", " say_team ", " joined team ",
\* " disconnected (reason " (closed by a parenthesis), with the text "hi" or ""
TextGens ==
    {[kind |-> "text", u |-> u, verb |-> verb, text |-> x] :
        u \in FewUsers,
        verb \in {TAG_say, TAG_say_team, TAG_joined_team, TAG_disconnected},
        x \in {<<104, 105>>, <<>>}}

\* Bodies of the other shapes, and bodies of no shape:
\*   'Log file started (file "logs/L0.log") (game "/tf") (version "86")'
\*   'log file started (file "logs/L0.log")(game "/tf") (version "86")'
\*   'Log file closed'
\*   'log file closed.'
\*   'Server cvars start'
\*   'server cvars end'
\*   'server cvar "mp_timelimit" = "30"'
\*   '"mp_timelimit" = "30"'
\*   'Loading map "cp_dustbowl"'
\*   'loading map "cp_dustbowl"'
\*   'loading map ""'
\*   'Started map "koth_highpass" (CRC "505b4fbf")'
\*   'Started map "koth_highpass"(CRC "505b4fbf")'
\*   'Started map "koth_highpass" (CRC 505b4fbf)'
\*   'rcon from "1.2.3.4:55": command "status"'
\*   'Rcon from "1.2.3.4": command "status"'
\*   'rcon from "1.2.3.400:55": command "status"'
\*   'rcon from "1.2.3.4:99999": command "status"'
\*   'custom mod line'
\*   'xxxxxxxxxxxxxxxxxxxxxxx"a say "hi<6><[U:1:2]><>"' (23 'x' in front)
\*   'log file closedxx say "a<6><[U:1:2]><>"'
\*   'server cvars endx say "a<6><[U:1:2]><>"'
\*   ''
FixedBodies ==
    { <<76, 111, 103, 32, 102, 105, 108, 101, 32, 115, 116, 97, 114, 116, 101, 100, 32, 40, 102, 105, 108, 101, 32, 34, 108, 111, 103, 115, 47, 76, 48, 46, 108, 111, 103, 34, 41, 32, 40, 103, 97, 109, 101, 32, 34, 47, 116, 102, 34, 41, 32, 40, 118, 101, 114, 115, 105, 111, 110, 32, 34, 56, 54, 34, 41>>,
      <<108, 111, 103, 32, 102, 105, 108, 101, 32, 115, 116, 97, 114, 116, 101, 100, 32, 40, 102, 105, 108, 101, 32, 34, 108, 111, 103, 115, 47, 76, 48, 46, 108, 111, 103, 34, 41, 40, 103, 97, 109, 101, 32, 34, 47, 116, 102, 34, 41, 32, 40, 118, 101, 114, 115, 105, 111, 110, 32, 34, 56, 54, 34, 41>>,
      <<76, 111, 103, 32, 102, 105, 108, 101, 32, 99, 108, 111, 115, 101, 100>>,
      <<108, 111, 103, 32, 102, 105, 108, 101, 32, 99, 108, 111, 115, 101, 100, 46>>,
      <<83, 101, 114, 118, 101, 114, 32, 99, 118, 97, 114, 115, 32, 115, 116, 97, 114, 116>>,
      <<115, 101, 114, 118, 101, 114, 32, 99, 118, 97, 114, 115, 32, 101, 110, 100>>,
      <<115, 101, 114, 118, 101, 114, 32, 99, 118, 97, 114, 32, 34, 109, 112, 95, 116, 105, 109, 101, 108, 105, 109, 105, 116, 34, 32, 61, 32, 34, 51, 48, 34>>,
      <<34, 109, 112, 95, 116, 105, 109, 101, 108, 105, 109, 105, 116, 34, 32, 61, 32, 34, 51, 48, 34>>,
      <<76, 111, 97, 100, 105, 110, 103, 32, 109, 97, 112, 32, 34, 99, 112, 95, 100, 117, 115, 116, 98, 111, 119, 108, 34>>,
      <<108, 111, 97, 100, 105, 110, 103, 32, 109, 97, 112, 32, 34, 99, 112, 95, 100, 117, 115, 116, 98, 111, 119, 108, 34>>,
      <<108, 111, 97, 100, 105, 110, 103, 32, 109, 97, 112, 32, 34, 34>>,
      <<83, 116, 97, 114, 116, 101, 100, 32, 109, 97, 112, 32, 34, 107, 111, 116, 104, 95, 104, 105, 103, 104, 112, 97, 115, 115, 34, 32, 40, 67, 82, 67, 32, 34, 53, 48, 53, 98, 52, 102, 98, 102, 34, 41>>,
      <<83, 116, 97, 114, 116, 101, 100, 32, 109, 97, 112, 32, 34, 107, 111, 116, 104, 95, 104, 105, 103, 104, 112, 97, 115, 115, 34, 40, 67, 82, 67, 32, 34, 53, 48, 53, 98, 52, 102, 98, 102, 34, 41>>,
      <<83, 116, 97, 114, 116, 101, 100, 32, 109, 97, 112, 32, 34, 107, 111, 116, 104, 95, 104, 105, 103, 104, 112, 97, 115, 115, 34, 32, 40, 67, 82, 67, 32, 53, 48, 53, 98, 52, 102, 98, 102, 41>>,
      <<114, 99, 111, 110, 32, 102, 114, 111, 109, 32, 34, 49, 46, 50, 46, 51, 46, 52, 58, 53, 53, 34, 58, 32, 99, 111, 109, 109, 97, 110, 100, 32, 34, 115, 116, 97, 116, 117, 115, 34>>,
      <<82, 99, 111, 110, 32, 102, 114, 111, 109, 32, 34, 49, 46, 50, 46, 51, 46, 52, 34, 58, 32, 99, 111, 109, 109, 97, 110, 100, 32, 34, 115, 116, 97, 116, 117, 115, 34>>,
      <<114, 99, 111, 110, 32, 102, 114, 111, 109, 32, 34, 49, 46, 50, 46, 51, 46, 52, 48, 48, 58, 53, 53, 34, 58, 32, 99, 111, 109, 109, 97, 110, 100, 32, 34, 115, 116, 97, 116, 117, 115, 34>>,
      <<114, 99, 111, 110, 32, 102, 114, 111, 109, 32, 34, 49, 46, 50, 46, 51, 46, 52, 58, 57, 57, 57, 57, 57, 34, 58, 32, 99, 111, 109, 109, 97, 110, 100, 32, 34, 115, 116, 97, 116, 117, 115, 34>>,
      <<99, 117, 115, 116, 111, 109, 32, 109, 111, 100, 32, 108, 105, 110, 101>>,
      <<120, 120, 120, 120, 120, 120, 120, 120, 120, 120, 120, 120, 120, 120, 120, 120, 120, 120, 120, 120, 120, 120, 120, 34, 97, 32, 115, 97, 121, 32, 34, 104, 105, 60, 54, 62, 60, 91, 85, 58, 49, 58, 50, 93, 62, 60, 62, 34>>,
      <<108, 111, 103, 32, 102, 105, 108, 101, 32, 99, 108, 111, 115, 101, 100, 120, 120, 32, 115, 97, 121, 32, 34, 97, 60, 54, 62, 60, 91, 85, 58, 49, 58, 50, 93, 62, 60, 62, 34>>,
      <<115, 101, 114, 118, 101, 114, 32, 99, 118, 97, 114, 115, 32, 101, 110, 100, 120, 32, 115, 97, 121, 32, 34, 97, 60, 54, 62, 60, 91, 85, 58, 49, 58, 50, 93, 62, 60, 62, 34>>,
      <<>> }

RenderBodyGen(g) ==
    CASE g.kind = "connect" ->
            RenderUser(g.u) \o TAG_connected \o <<34>> \o RenderAddr(g.o, g.hasPort, g.p) \o <<34>>
      [] g.kind = "action" ->
            RenderUser(g.u) \o g.verb \o <<34>> \o g.action \o <<34>> \o TAG_against
                            \o RenderUser(g.against)
      [] g.kind = "text" ->
            RenderUser(g.u) \o g.verb \o <<34>> \o g.text \o <<34>>
                            \o (IF g.verb = TAG_disconnected THEN <<41>> ELSE <<>>)
      [] OTHER -> g.text

BodyGens ==
    ConnectGens \cup ActionGens \cup TextGens \cup {[kind |-> "fixed", text |-> x] : x \in FixedBodies}

Pending == [st |-> "pending"]

Calls ==
    {[op |-> "from_bytes", input |-> RenderBufferGen(g), gen |-> g] : g \in BufferGens}
    \cup {[op |-> "from_message", input |-> RenderBodyGen(g), gen |-> g] : g \in BodyGens}
    \cup {[op |-> "user", input |-> RenderUserGen(g), gen |-> g] : g \in UserGens}
    \cup {[op |-> "kv_pair", input |-> RenderKvGen(g), gen |-> g] : g \in KvGens}
    \cup {[op |-> "ipv4_with_port", input |-> RenderAddrGen(g), gen |-> g] : g \in AddrGens}

----------------------------------------------------------------------------
(* The state machine: a call is drawn, then the operation is applied.      *)

Init ==
    \E c \in Calls :
        /\ op = c.op
        /\ input = c.input
        /\ gen = c.gen
        /\ result = Pending

\* LogMessage::from_bytes(data)
FromBytes ==
    /\ op = "from_bytes" /\ result = Pending
    /\ result' = from_bytes(input)
    /\ UNCHANGED <<op, input, gen>>

\* LogMessage::parse_message_type(&self) on a decoded line
ParseMessageType ==
    /\ op = "from_bytes" /\ result.st = "ok"
    /\ op' = "parse_message_type"
    /\ input' = result.val.message
    /\ gen' = [kind |-> "line"]
    /\ result' = from_message(result.val.message)

\* MessageType::from_message(msg)
FromMessage ==
    /\ op = "from_message" /\ result = Pending
    /\ result' = from_message(input)
    /\ UNCHANGED <<op, input, gen>>

\* parsers::user(i)
User ==
    /\ op = "user" /\ result = Pending
    /\ result' = user(input)
    /\ UNCHANGED <<op, input, gen>>

\* parsers::kv_pair(i)
KvPair ==
    /\ op = "kv_pair" /\ result = Pending
    /\ result' = kv_pair(input)
    /\ UNCHANGED <<op, input, gen>>

\* parsers::ipv4_with_port(i)
Ipv4WithPort ==
    /\ op = "ipv4_with_port" /\ result = Pending
    /\ result' = ipv4_with_port(input)
    /\ UNCHANGED <<op, input, gen>>

Next ==
    \/ FromBytes
    \/ ParseMessageType
    \/ FromMessage
    \/ User
    \/ KvPair
    \/ Ipv4WithPort

Spec == Init /\ [][Next]_vars

\* The operation has been applied.
Done == result # Pending

----------------------------------------------------------------------------
(* Claims C1, C2: the decoders return for every input.                     *)

\* C1 (as claimed): from_message is total.  For every message body, taken
\* directly or from a decoded line, it returns a MessageType; it never aborts,
\* also when a session id does not fit in 32 bits or an octet is above 255.
C1_FromMessageTotal ==
    (op \in {"from_message", "parse_message_type"} /\ Done) => result.st = "ok"

\* The three errors from_bytes is said to return
FrameErrors ==
    {[kind |-> "NoMagicStringEnd"], [kind |-> "BadTimestamp"]}
    \cup {[kind |-> "BadPasswordByte", byte |-> b] : b \in 0..255}

\* C2 (as claimed): for every buffer, also an empty one or one whose last byte
\* is the line marker, from_bytes returns Ok(LogMessage) or one of
\* NoMagicStringEnd, BadPasswordByte(b), BadTimestamp; it never aborts.
C2_FromBytesReturns ==
    (op = "from_bytes" /\ Done) =>
        \/ result.st = "ok"
        \/ result.st = "err" /\ result.err \in FrameErrors

----------------------------------------------------------------------------
(* Claims C3, C4, C5: the secret, the transport prefix and the message.    *)

HasByte(s, b) == \E k \in 1..Len(s) : s[k] = b

BadPasswordByte(b) == Err([kind |-> "BadPasswordByte", byte |-> b])

\* A generated line: a header, then "L ", the timestamp prefix and a body
C3_Line ==
    /\ op = "from_bytes" /\ Done
    /\ gen.header # <<>> /\ gen.marker = <<76, 32>> /\ gen.stamp = GoodStamp

\* The header begins with the transport prefix and goes on after it
IsPrefixed(h) == Len(h) > 4 /\ SubSeq(h, 1, 4) = PACKET_HEADER

\* C3 (as claimed): for EVERY byte string B the header 'S' B gives the secret
\* Some(lossy_utf8(B)), a header that starts with 'R' gives None, and a header
\* that starts with any other byte b gives Err(BadPasswordByte(b)).  (A header
\* cannot start with the marker 'L' itself.)
C3_SecretRoundTrip_EveryB ==
    (C3_Line /\ gen.header[1] # MAGIC_STRING_END) =>
        IF gen.header[1] = MAGIC_PASSWORD_BYTE
        THEN result.st = "ok" /\ result.val.secret = Some(Utf8Lossy(Tail(gen.header)))
        ELSE IF gen.header[1] = MAGIC_NOPASSWORD_BYTE
        THEN result.st = "ok" /\ result.val.secret = None
        ELSE result = BadPasswordByte(gen.header[1])

\* C3 (amended): for every byte string B WITHOUT the byte 'L', the header 'S' B
\* gives the secret Some(lossy_utf8(B)) and the header 'R' B gives None; a
\* header without 'L' that starts with any other byte b, and is not the
\* transport prefix followed by more bytes, gives Err(BadPasswordByte(b)).
C3_SecretRoundTrip ==
    (C3_Line /\ ~HasByte(gen.header, MAGIC_STRING_END)) =>
        IF gen.header[1] = MAGIC_PASSWORD_BYTE
        THEN result.st = "ok" /\ result.val.secret = Some(Utf8Lossy(Tail(gen.header)))
        ELSE IF gen.header[1] = MAGIC_NOPASSWORD_BYTE
        THEN result.st = "ok" /\ result.val.secret = None
        ELSE IsPrefixed(gen.header) \/ result = BadPasswordByte(gen.header[1])

\* The header 'S' 0xFF 'n' has been decoded: the secret is U+FFFD 'n'
C3_Witness ==
    /\ C3_Line /\ gen.header = <<83, 255, 110>>
    /\ result.st = "ok" /\ result.val.secret = Some(<<REPLACEMENT_CHARACTER, 110>>)

\* The bytes in front of the first 'L' of a buffer (all of it without an 'L')
HeaderOf(data) ==
    IF HasByte(data, MAGIC_STRING_END)
    THEN SubSeq(data, 1, Position(data, MAGIC_STRING_END) - 1)
    ELSE data

\* A buffer with the transport prefix in front has been decoded
C4_Prefixed == op = "from_bytes" /\ Done /\ StartsWith(input, PACKET_HEADER)

\* C4 (as claimed): the result for a buffer with the four 0xFF bytes in front
\* is the result for the same buffer without them, also when the header
\* without them is empty.
C4_PrefixMakesNoDifference ==
    C4_Prefixed => result = from_bytes(Drop(input, 4))

\* C4 (amended): the result for a buffer with the four 0xFF bytes in front is
\* the result for the same buffer without them whenever the header without
\* them is not empty and is not itself the four 0xFF bytes followed by more
\* bytes (the prefix is cut off once, and only from a longer header).
C4_PrefixStripped ==
    (C4_Prefixed /\ HeaderOf(Drop(input, 4)) # <<>> /\ ~IsPrefixed(HeaderOf(Drop(input, 4))))
        => result = from_bytes(Drop(input, 4))

\* The header 0xFF x 4 "Snya" has been decoded, with the secret "nya"
C4_Witness ==
    /\ C4_Prefixed /\ HeaderOf(input) = PACKET_HEADER \o <<83, 110, 121, 97>>
    /\ result.st = "ok" /\ result.val.secret = Some(<<110, 121, 97>>)

\* "", "R", "Snya", 0xFF x 4 "Snya": no header and well-formed indicators
GoodHeaders ==
    {<<>>, <<82>>, <<83, 110, 121, 97>>, PACKET_HEADER \o <<83, 110, 121, 97>>}

\* C5 (as claimed): with the marker, a well-formed indicator or no header, and
\* the timestamp prefix, from_bytes succeeds and message is exactly the text
\* after the prefix, leading whitespace kept.
C5_MessageVerbatim ==
    (/\ op = "from_bytes" /\ Done
     /\ gen.header \in GoodHeaders /\ gen.marker = <<76, 32>> /\ gen.stamp = GoodStamp)
        => result.st = "ok" /\ result.val.message = Utf8Lossy(gen.body)

----------------------------------------------------------------------------
(* What the generated parts of a message body stand for.                   *)

\* The session ids "6", "007", "2" and "4294967295" as u32 values; the other
\* generated session id, "4294967296", is no u32
UidValue(ds) ==
    CASE ds = <<54>> -> <<0, 6>>
      [] ds = <<48, 48, 55>> -> <<0, 7>>
      [] ds = <<50>> -> <<0, 2>>
      [] ds = <<52, 50, 57, 52, 57, 54, 55, 50, 57, 53>> -> <<42949, 67295>>

UidFits(ds) ==
    ds \in {<<54>>, <<48, 48, 55>>, <<50>>, <<52, 50, 57, 52, 57, 54, 55, 50, 57, 53>>}

\* The octets "0", "1", "255", "007", "192", "168"; "256" is no octet
OctetValue(ds) ==
    CASE ds = <<48>> -> 0
      [] ds = <<49>> -> 1
      [] ds = <<50, 53, 53>> -> 255
      [] ds = <<48, 48, 55>> -> 7
      [] ds = <<49, 57, 50>> -> 192
      [] ds = <<49, 54, 56>> -> 168

OctetsFit(o) == \A k \in 1..4 : o[k] # <<50, 53, 54>>

IpValue(o) == <<OctetValue(o[1]), OctetValue(o[2]), OctetValue(o[3]), OctetValue(o[4])>>

\* The ports "0", "27015", "65535", "00080"; "65536" is no port
PortValue(ds) ==
    CASE ds = <<48>> -> 0
      [] ds = <<50, 55, 48, 49, 53>> -> 27015
      [] ds = <<54, 53, 53, 51, 53>> -> 65535
      [] ds = <<48, 48, 48, 56, 48>> -> 80

PortFits(ds) == ds # <<54, 53, 53, 51, 54>>

IsAlnum(c) == (c >= 48 /\ c <= 57) \/ (c >= 65 /\ c <= 90) \/ (c >= 97 /\ c <= 122)

\* A well-formed identity: a name without '<', a session id within 32 bits,
\* the account id [U:d:n] with ONE digit d and a digit run n, and a team of
\* letters and digits that may be empty
WellFormedIdentity(u) ==
    /\ ~HasByte(u.name, 60)
    /\ UidFits(u.uid)
    /\ Len(u.d) = 1 /\ u.n # <<>>
    /\ \A k \in 1..Len(u.team) : IsAlnum(u.team[k])

\* "[U:d:n]"
SteamIdText(u) == <<91, 85, 58>> \o u.d \o <<58>> \o u.n \o <<93>>

\* The User of the parts u
UserValue(u) ==
    [name |-> u.name, uid |-> UidValue(u.uid), steamid |-> SteamIdText(u), team |-> u.team]

----------------------------------------------------------------------------
(* Claims C6, C7: the order of the shapes, and the connect shape.          *)

\* The outcomes of the twelve shape parsers in the order claimed
C6_Order(i) ==
    <<log_file_started(i), log_file_closed(i), server_cvars_start(i),
      server_cvars_end(i), loading_map(i), starting_map(i), rcon(i),
      chat_message(i), connect_message(i), disconnect_message(i),
      inter_player_action(i), join_team_msg(i)>>

\* Parser k of the order succeeds after every parser before it has failed
C6_FirstSuccess(rs, k) == rs[k].st = "ok" /\ \A j \in 1..(k - 1) : rs[j].st = "err"

C6_Law(rs) ==
    /\ \A k \in 1..12 : C6_FirstSuccess(rs, k) => result = OkVal(rs[k].val)
    /\ result = OkVal(Unknown) <=> \A k \in 1..12 : rs[k].st = "err"

\* The parsers of the order that succeed
C6_Succeeds(rs) == {k \in 1..12 : rs[k].st = "ok"}

\* A generated body: identity, " triggered ", a quoted action that is not
\* empty, " against ", identity
C6_ActionBody ==
    /\ op = "from_message" /\ gen.kind = "action" /\ gen.verb = TAG_triggered
    /\ gen.action # <<>>
    /\ WellFormedIdentity(gen.u) /\ WellFormedIdentity(gen.against)

\* The InterPlayerAction of the parts of a generated action body
C6_ActionValue ==
    OkVal([type |-> "InterPlayerAction", from |-> UserValue(gen.u),
           action |-> gen.action, against |-> UserValue(gen.against)])

\* C6: from_message returns the result of the first parser that succeeds, in
\* the order log_file_started, log_file_closed, server_cvars_start,
\* server_cvars_end, loading_map, starting_map, rcon, chat_message,
\* connect_message, disconnect_message, inter_player_action, join_team_msg,
\* and it returns Unknown exactly when none of the twelve succeeds; a body of
\* a player identity, " triggered ", a quoted action, " against " and a second
\* player identity is the InterPlayerAction of those three parts.
C6_FirstSuccessOrUnknown ==
    (op \in {"from_message", "parse_message_type"} /\ Done) =>
        /\ C6_Succeeds(C6_Order(input)) # {} =>
              result = OkVal(C6_Order(input)[Min(C6_Succeeds(C6_Order(input)))].val)
        /\ result = OkVal(Unknown) <=> C6_Succeeds(C6_Order(input)) = {}
        /\ C6_ActionBody => result = C6_ActionValue

\* The same statement for the bodies on which each of the twelve parsers
\* returns, with success or with failure
C6_FirstSuccessWhereAllReturn ==
    (/\ op \in {"from_message", "parse_message_type"} /\ Done
     /\ \A k \in 1..12 : C6_Order(input)[k].st \in {"ok", "err"}) =>
        /\ C6_Succeeds(C6_Order(input)) # {} =>
              result = OkVal(C6_Order(input)[Min(C6_Succeeds(C6_Order(input)))].val)
        /\ result = OkVal(Unknown) <=> C6_Succeeds(C6_Order(input)) = {}

\* 'log file closedxx say "a<6><[U:1:2]><>"', on which log_file_closed and
\* chat_message both succeed, has been classified as LogFileClosed
C6_OrderWitness ==
    /\ op = "from_message" /\ Done
    /\ C6_Succeeds(C6_Order(input)) = {2, 8}
    /\ chat_message(input).val.type = "ChatMessage"
    /\ StartsWith(input, <<108, 111, 103, 32, 102, 105, 108, 101>>)
    /\ result = OkVal([type |-> "LogFileClosed"])

\* The first parser of the order that succeeds after the ones before it
\* failed gives the result, and the result is Unknown exactly when all twelve
\* fail; the action body is the InterPlayerAction of its parts.
C6_FirstSuccessWins ==
    (op \in {"from_message", "parse_message_type"} /\ Done) =>
        /\ C6_Law(C6_Order(input))
        /\ C6_ActionBody =>
              result = OkVal([type |-> "InterPlayerAction", from |-> UserValue(gen.u),
                              action |-> gen.action, against |-> UserValue(gen.against)])

\* 'Bob<2><[U:1:3]><Blue>' triggered "dom" against 'a<6><[U:1:2]><>' has been
\* classified as InterPlayerAction
C6_Witness ==
    /\ C6_ActionBody /\ Done
    /\ gen.u.name = <<66, 111, 98>> /\ gen.against = User0
    /\ result.st = "ok" /\ result.val.type = "InterPlayerAction"
    /\ result.val.from.team = <<66, 108, 117, 101>>

\* A generated body: a well-formed identity, " connected, address ", and a
\* quoted address with octets up to 255 and a port up to 65535
C7_ConnectBody ==
    /\ op = "from_message" /\ gen.kind = "connect" /\ gen.hasPort
    /\ WellFormedIdentity(gen.u) /\ OctetsFit(gen.o) /\ PortFits(gen.p)

\* C7: for every well-formed identity (the account id [U:d:n] with one digit
\* d), octets a.b.c.d up to 255 and port p up to 65535, the body
\* `<identity> connected, address "a.b.c.d:p"` is Connected with exactly that
\* user, ip and port.
C7_Connected ==
    (C7_ConnectBody /\ Done) =>
        result = OkVal([type |-> "Connected", user |-> UserValue(gen.u),
                        ip |-> IpValue(gen.o), port |-> PortValue(gen.p)])

\* '"a<007><[U:1:2]><Red>" connected, address "192.168.0.1:27015"' has been
\* classified, with uid 7 and port 27015
C7_Witness ==
    /\ C7_ConnectBody /\ Done
    /\ gen.u.uid = <<48, 48, 55>> /\ gen.u.team = <<82, 101, 100>>
    /\ result.st = "ok" /\ result.val.user.uid = <<0, 7>> /\ result.val.port = 27015

----------------------------------------------------------------------------
(* Claim C8: the address and port parser.                                  *)

\* ipv4_with_port has been applied to a generated address with octets up to 255
C8_AddrCall == op = "ipv4_with_port" /\ Done /\ OctetsFit(gen.o)

\* from_message has been applied to a generated connect body with a
\* well-formed identity and octets up to 255
C8_ConnectCall ==
    /\ op = "from_message" /\ Done /\ gen.kind = "connect"
    /\ WellFormedIdentity(gen.u) /\ OctetsFit(gen.o)

\* C8 (as claimed): ':' and the port are optional.  An address without
\* ':port' is accepted as well as one with a port up to 65535, and so is the
\* connect body with such an address.
C8_PortOptional ==
    /\ (C8_AddrCall /\ (~gen.hasPort \/ PortFits(gen.p))) =>
            result.st = "ok" /\ result.val[1] = IpValue(gen.o)
    /\ (C8_ConnectCall /\ (~gen.hasPort \/ PortFits(gen.p))) =>
            result.st = "ok" /\ result.val.type = "Connected"

\* C8 (amended): ':' and the port are mandatory.  ipv4_with_port accepts four
\* decimal octets separated by '.' exactly when ':' and a decimal port up to
\* 65535 follow, and returns the address and the port; an address without
\* ':port' is rejected, and the connect body with such an address is Unknown.
C8_PortMandatory ==
    /\ C8_AddrCall =>
            IF gen.hasPort /\ PortFits(gen.p)
            THEN result = Ok(gen.post, <<IpValue(gen.o), PortValue(gen.p)>>)
            ELSE result = Error
    /\ (C8_ConnectCall /\ ~gen.hasPort) => result = OkVal(Unknown)

\* "192.168.0.1" without a port has been rejected
C8_Witness ==
    /\ C8_AddrCall /\ ~gen.hasPort /\ gen.post = <<>>
    /\ gen.o = <<<<49, 57, 50>>, <<49, 54, 56>>, <<48>>, <<49>>>>
    /\ input = <<49, 57, 50, 46, 49, 54, 56, 46, 48, 46, 49>>
    /\ result = Error

----------------------------------------------------------------------------
(* Claim C9: the player identity parser.                                   *)

\* user has been applied to a generated text
C9_UserCall == op = "user" /\ Done

\* The generated parts are of the form claimed: nothing in front, a name
\* without '<', a session id that is a decimal run within 32 bits, digit runs
\* d and n of any length, a team of letters and digits
C9_ClaimedForm(g) ==
    /\ g.pre = <<>>
    /\ ~HasByte(g.u.name, 60)
    /\ UidFits(g.u.uid)
    /\ g.u.d # <<>> /\ g.u.n # <<>>
    /\ \A k \in 1..Len(g.u.team) : IsAlnum(g.u.team[k]) \/ g.u.team[k] \in {1046, 1635}

\* C9 (as claimed): user accepts exactly the texts of the form
\* "name<uid><[U:d:n]><team>" with a name that runs up to the first '<', a
\* uid within 32 bits, digit runs d and n of any length and an alphanumeric
\* team; the fields of the User are those parts.  (Stated for names on one
\* line.)
C9_ExactlyClaimedForm ==
    (C9_UserCall /\ ~HasByte(gen.u.name, 10)) =>
        /\ result.st = "ok" <=> C9_ClaimedForm(gen)
        /\ result.st = "ok" => result.val = UserValue(gen.u)

\* The text from the start up to and with the name, after its last line feed
C9_NameLine(g) ==
    LET t == g.pre \o <<34>> \o g.u.name
        lf == {k \in 1..Len(t) : t[k] = 10}
    IN  IF lf = {} THEN t ELSE Drop(t, CHOOSE k \in lf : \A j \in lf : j <= k)

\* The name matched: what follows the first quote from which the text up to
\* '<' has no line feed
C9_Name(g) == Drop(C9_NameLine(g), Position(C9_NameLine(g), 34))

\* The generated characters that are letters, digits or connectors: the
\* ASCII ones, '_', the Cyrillic Zhe and the Arabic-Indic three
C9_IsWord(c) == IsAlnum(c) \/ c \in {95, 1046, 1635}

\* The text after the name is <uid><[U:d:n]><team>" with a uid of at least
\* one digit, ONE digit d, at least one digit n (the generated runs hold
\* digits only, of either script), and a team of word characters
C9_TailMatches(u) ==
    /\ u.uid # <<>> /\ Len(u.d) = 1 /\ u.n # <<>>
    /\ \A k \in 1..Len(u.team) : C9_IsWord(u.team[k])

\* The match: from the quote in front of the name matched to the closing quote
C9_Match(g) == RenderUser([g.u EXCEPT !.name = C9_Name(g)])

\* The generated characters that are decimal digits: 0-9 and the
\* Arabic-Indic three
C9_IsDigit(c) == (c >= 48 /\ c <= 57) \/ c = 1635

\* "[U:d:n]" with ONE digit d and a run n of at least one digit
C9_SteamIdForm(t) ==
    /\ Len(t) >= 7 /\ SubSeq(t, 1, 3) = <<91, 85, 58>>
    /\ C9_IsDigit(t[4]) /\ t[5] = 58 /\ t[Len(t)] = 93
    /\ \A k \in 6..(Len(t) - 1) : C9_IsDigit(t[k])

\* Somewhere in the text i stands "name<uid><steamid><team>" with the name,
\* steamid and team of v and a session id of 0-9 whose value is that of v
C9_Occurs(i, v) ==
    \E s \in 1..Len(i), nu \in 1..Len(i) :
        /\ UidFits(Slice(i, s + Len(v.name) + 2, s + Len(v.name) + 1 + nu))
        /\ UidValue(Slice(i, s + Len(v.name) + 2, s + Len(v.name) + 1 + nu)) = v.uid
        /\ StartsWith(Drop(i, s - 1),
                      <<34>> \o v.name \o <<60>>
                      \o Slice(i, s + Len(v.name) + 2, s + Len(v.name) + 1 + nu)
                      \o <<62, 60>> \o v.steamid \o <<62, 60>> \o v.team \o <<62, 34>>)

\* The generated text begins with a well-formed identity whose name has
\* neither '<' nor a line feed
C9_BeginsWellFormed(g) ==
    /\ g.pre = <<>>
    /\ ~HasByte(g.u.name, 60) /\ ~HasByte(g.u.name, 10)
    /\ UidFits(g.u.uid) /\ C9_TailMatches(g.u)

\* C9 (amended): user accepts every text that begins with
\* "name<uid><[U:d:n]><team>" where name has no '<' and no line feed, uid is a
\* run of the digits 0-9 of a value up to 4294967295, d is ONE decimal digit,
\* n a run of decimal digits and team a possibly empty run of word characters
\* (letters, digits and '_', of any script); the four fields of the User are
\* then those parts.  Whenever user succeeds, its four fields are the parts
\* of such an identity that stands in the text, except that the name is the
\* shortest text after the quote that is followed by <uid><[U:d:n]><team>",
\* so it may contain '<' (never a line feed).
C9_User ==
    C9_UserCall =>
        /\ C9_BeginsWellFormed(gen) =>
              result.st = "ok" /\ result.val = UserValue(gen.u)
        /\ result.st = "ok" =>
              /\ ~HasByte(result.val.name, 10)
              /\ C9_SteamIdForm(result.val.steamid)
              /\ \A k \in 1..Len(result.val.team) : C9_IsWord(result.val.team[k])
              /\ C9_Occurs(input, result.val)

\* '"a<<6><[U:1:2]><>"' has been accepted with the name 'a<'
C9_Witness ==
    /\ C9_UserCall /\ gen.pre = <<>> /\ gen.u.name = <<97, 60>>
    /\ result.st = "ok" /\ result.val.name = <<97, 60>> /\ result.val.uid = <<0, 6>>

----------------------------------------------------------------------------
(* Claim C10: the key/value pair parser.                                   *)

\* kv_pair has been applied to a generated pair whose key has no space and
\* whose value has no quote
C10_KvCall ==
    /\ op = "kv_pair" /\ Done
    /\ ~HasByte(gen.key, 32) /\ ~HasByte(gen.value, 34)

\* C10 (as claimed): both (key "value") and (key value) are accepted, the
\* unquoted value running up to ')', and (key, value) is returned.  (Stated
\* for keys and values that are letters.)
C10_BothForms ==
    (/\ C10_KvCall /\ gen.key # <<>> /\ gen.value # <<>>
     /\ \A k \in 1..Len(gen.key) : gen.key[k] = 107
     /\ \A k \in 1..Len(gen.value) : gen.value[k] = 118) =>
        result = Ok(gen.post, <<gen.key, gen.value>>)

\* C10 (amended): only (key "value") is accepted.  After '(' a key running up
\* to the next space and one space, the value is a quoted string, followed by
\* ')', and (key, value) is returned; (key value) without quotes is rejected.
C10_QuotedOnly ==
    C10_KvCall =>
        IF gen.quoted
        THEN result = Ok(gen.post, <<gen.key, gen.value>>)
        ELSE result = Error

\* '(k "v)") x' has been accepted with the value 'v)'
C10_Witness ==
    /\ C10_KvCall /\ gen.quoted /\ gen.key = <<107>> /\ gen.value = <<118, 41>>
    /\ gen.post = <<32, 120>>
    /\ result = Ok(<<32, 120>>, <<<<107>>, <<118, 41>>>>)

----------------------------------------------------------------------------
(* Claim C11: the variants of MessageType that from_message returns.       *)

\* One message body for each variant but Unknown: the lines of the HL Log
\* Standard for the server shapes
C11_ServerExamples ==
  {
    \* 'Log file started (file "logs/L0.log") (game "/tf") (version "86")'
    [type |-> "LogFileStarted",
     text |-> <<76, 111, 103, 32, 102, 105, 108, 101, 32, 115, 116, 97, 114, 116, 101, 100, 32, 40, 102, 105, 108, 101, 32, 34, 108, 111, 103, 115, 47, 76, 48, 46, 108, 111, 103, 34, 41, 32, 40, 103, 97, 109, 101, 32, 34, 47, 116, 102, 34, 41, 32, 40, 118, 101, 114, 115, 105, 111, 110, 32, 34, 56, 54, 34, 41>>],
    \* 'Log file closed'
    [type |-> "LogFileClosed",
     text |-> <<76, 111, 103, 32, 102, 105, 108, 101, 32, 99, 108, 111, 115, 101, 100>>],
    \* 'Server cvars start'
    [type |-> "ServerCvarsStart",
     text |-> <<83, 101, 114, 118, 101, 114, 32, 99, 118, 97, 114, 115, 32, 115, 116, 97, 114, 116>>],
    \* 'server cvar "mp_timelimit" = "30"'
    [type |-> "ServerCvar",
     text |-> <<115, 101, 114, 118, 101, 114, 32, 99, 118, 97, 114, 32, 34, 109, 112, 95, 116, 105, 109, 101, 108, 105, 109, 105, 116, 34, 32, 61, 32, 34, 51, 48, 34>>],
    \* 'server cvars end'
    [type |-> "ServerCvarsEnd",
     text |-> <<115, 101, 114, 118, 101, 114, 32, 99, 118, 97, 114, 115, 32, 101, 110, 100>>],
    \* 'loading map "cp_dustbowl"'
    [type |-> "LoadingMap",
     text |-> <<108, 111, 97, 100, 105, 110, 103, 32, 109, 97, 112, 32, 34, 99, 112, 95, 100, 117, 115, 116, 98, 111, 119, 108, 34>>],
    \* 'Started map "koth_highpass" (CRC "505b4fbf")'
    [type |-> "StartedMap",
     text |-> <<83, 116, 97, 114, 116, 101, 100, 32, 109, 97, 112, 32, 34, 107, 111, 116, 104, 95, 104, 105, 103, 104, 112, 97, 115, 115, 34, 32, 40, 67, 82, 67, 32, 34, 53, 48, 53, 98, 52, 102, 98, 102, 34, 41>>],
    \* 'rcon from "1.2.3.4:55": command "status"'
    [type |-> "Rcon",
     text |-> <<114, 99, 111, 110, 32, 102, 114, 111, 109, 32, 34, 49, 46, 50, 46, 51, 46, 52, 58, 53, 53, 34, 58, 32, 99, 111, 109, 109, 97, 110, 100, 32, 34, 115, 116, 97, 116, 117, 115, 34>>]
  }

\* and, with the identity "a<6><[U:1:2]><>", the lines
\*   <identity> say "hi"
\*   <identity> connected, address "192.168.0.1:27015"
\*   <identity> disconnected (reason "hi")
\*   <identity> joined team "hi"
\*   <identity> triggered "dom" against <identity>
C11_PlayerExamples ==
    {[type |-> "ChatMessage",
      text |-> RenderBodyGen([kind |-> "text", u |-> User0, verb |-> TAG_say,
                              text |-> <<104, 105>>])],
     [type |-> "Connected",
      text |-> RenderBodyGen([kind |-> "connect", u |-> User0,
                              o |-> <<<<49, 57, 50>>, <<49, 54, 56>>, <<48>>, <<49>>>>,
                              hasPort |-> TRUE, p |-> <<50, 55, 48, 49, 53>>])],
     [type |-> "Disconnected",
      text |-> RenderBodyGen([kind |-> "text", u |-> User0, verb |-> TAG_disconnected,
                              text |-> <<104, 105>>])],
     [type |-> "JoinedTeam",
      text |-> RenderBodyGen([kind |-> "text", u |-> User0, verb |-> TAG_joined_team,
                              text |-> <<104, 105>>])],
     [type |-> "InterPlayerAction",
      text |-> RenderBodyGen([kind |-> "action", u |-> User0, verb |-> TAG_triggered,
                              action |-> <<100, 111, 109>>, against |-> User0])]}

C11_Examples == C11_ServerExamples \cup C11_PlayerExamples

\* from_message has returned for the example body of the variant type
C11_Returned(type) ==
    /\ op = "from_message" /\ Done
    /\ \E e \in C11_Examples : e.type = type /\ e.text = input

\* C11 (as claimed): every variant of MessageType other than Unknown, the
\* configuration variable ServerCvar among them, is returned by from_message
\* for at least one message body: here, for the example body of the variant.
C11_EveryVariantReturned ==
    \A e \in C11_Examples :
        C11_Returned(e.type) => result.st = "ok" /\ result.val.type = e.type

\* No parser builds a ServerCvar: from_message never returns one.
C11_ServerCvarNeverReturned ==
    (op \in {"from_message", "parse_message_type"} /\ Done /\ result.st = "ok")
        => result.val.type # "ServerCvar"

\* Every other variant is returned for its example body.
C11_OtherVariantsReturned ==
    \A e \in C11_Examples :
        (C11_Returned(e.type) /\ e.type # "ServerCvar")
            => result.st = "ok" /\ result.val.type = e.type

\* 'server cvar "mp_timelimit" = "30"' has been classified: as Unknown
C11_Witness == C11_Returned("ServerCvar") /\ result = OkVal(Unknown)

----------------------------------------------------------------------------
(* Claim C12: where the identity matched by user lies in its input.        *)

PlayerTypes == {"ChatMessage", "Connected", "Disconnected", "InterPlayerAction", "JoinedTeam"}

\* The first player of a player-related value
C12_PlayerOf(v) == IF v.type \in {"ChatMessage", "InterPlayerAction"} THEN v.from ELSE v.user

\* from_message has returned a player-related variant
C12_PlayerShape ==
    /\ op \in {"from_message", "parse_message_type"} /\ Done
    /\ result.st = "ok" /\ result.val.type \in PlayerTypes

\* C12 (as claimed): whenever user succeeds, its input is the identity
\* matched followed by the remainder returned, so the identity begins at the
\* first character and the remainder is what follows it; and from_message
\* returns a player-related variant only for a body that begins with the
\* identity of its player: a quote, the name and '<'.
C12_IdentityAtStart ==
    /\ (C9_UserCall /\ result.st = "ok") => input = C9_Match(gen) \o result.rest
    /\ C12_PlayerShape =>
            StartsWith(input, <<34>> \o C12_PlayerOf(result.val).name \o <<60>>)

\* user has accepted 'x"a<6><[U:1:2]><>" say', whose identity begins at the
\* second character, with the remainder '" say'
C12_UserWitness ==
    /\ C9_UserCall /\ gen.pre = <<120>> /\ gen.u = User0 /\ gen.post = <<32, 115, 97, 121>>
    /\ result.st = "ok" /\ result.rest = <<34, 32, 115, 97, 121>>

\* The body of 23 'x' and '"a say "hi<6><[U:1:2]><>"' has been classified as
\* the ChatMessage of the player 'a say "hi' with the text 'hi<6><[U:1:2]><>'
C12_Witness ==
    /\ C12_PlayerShape /\ input[1] = 120
    /\ result.val.type = "ChatMessage"
    /\ result.val.from.name = <<97, 32, 115, 97, 121, 32, 34, 104, 105>>
    /\ result.val.message = <<104, 105, 60, 54, 62, 60, 91, 85, 58, 49, 58, 50, 93, 62, 60, 62>>

====
